---------------------------- MODULE Spec2Model ----------------------------
(***************************************************************************)
(* The regular-expression pipeline of the repository: FixedRegexParser     *)
(* (regex_parser.py), ThompsonNFABuilder (thompson_builder.py), NFA        *)
(* (nfa_classes.py), SubsetConstructor (subset_construction.py), DFA       *)
(* (dfa_classes.py) and DFAMinimizer (dfa_minimization.py).                *)
(*                                                                         *)
(* Python objects are held in pools (id -> object record); a reference to  *)
(* a state is its id, as NFAState and DFAState hash and compare by id.     *)
(***************************************************************************)
EXTENDS Integers, Sequences, FiniteSets, TLC

VARIABLES
    regex,        \* the text handed to parse (None when there is none)
    parser,       \* the FixedRegexParser object and the locals of its parse call
    phase,        \* the position of the program in the pipeline
    ast,          \* the AST handed to build_nfa_from_ast (None before)
    builder,      \* the ThompsonNFABuilder object
    nfa,          \* the NFA handed to nfa_to_dfa
    constructor,  \* the SubsetConstructor object
    conv,         \* the local variables of the running nfa_to_dfa call
    dfa,          \* the DFA returned by nfa_to_dfa, handed to minimize_dfa
    minimizer,    \* the DFAMinimizer object
    mini,         \* the local variables of the running minimize_dfa call
    minimized_dfa,\* the DFA returned by minimize_dfa
    round,        \* the number of the call in a sequence of calls on the same objects
    earlier,      \* what the first call on the objects returned (None before)
    batch,        \* the locals of the loop over the expressions of a file (None outside)
    call          \* the locals of a function called on its own (None outside)

vars == <<regex, parser, phase, ast, builder, nfa, constructor, conv, dfa, minimizer, mini,
          minimized_dfa, round, earlier, batch, call>>

---------------------------------------------------------------------------
(* Bounds of the model. *)

\* ASTs drawn as inputs have at most this many nodes.
MaxAstNodes == 5

\* Input strings handed to simulate have at most this many symbols.
MaxStrLen == 3

\* NFAs drawn as inputs have at most this many states and transitions.
MaxNfaStates == 3
MaxNfaEdges == 2

\* DFAs drawn as inputs have at most this many states.
MaxDfaStates == 2

\* The input symbols of the automata.
Symbols == {"a", "b"}

RECURSIVE StringsOfLen(_)
StringsOfLen(n) ==
    IF n = 0 THEN {<<>>}
    ELSE {Append(s, c) : s \in StringsOfLen(n - 1), c \in Symbols}

Strings == UNION {StringsOfLen(n) : n \in 0..MaxStrLen}

\* Python's None.
None == [node_type |-> "none"]

\* A dict or defaultdict with no key.
EmptyDict == [k \in {} |-> {}]

---------------------------------------------------------------------------
(* ast_node.py *)

ASTNode(value, left, right, node_type) ==
    [value |-> value, left |-> left, right |-> right, node_type |-> node_type]

is_operand(node) == node.node_type = "operand"

Literal(c) == ASTNode(c, None, None, "operand")
Star(child) == ASTNode("*", child, None, "unary_op")
Concat(l, r) == ASTNode(".", l, r, "binary_op")
Union(l, r) == ASTNode("|", l, r, "binary_op")

\* The leaves of an input AST: a literal symbol or the epsilon literal.
LeafValues == Symbols \cup {"ε"}

RECURSIVE ASTsOfSize(_)
ASTsOfSize(n) ==
    IF n = 1 THEN {Literal(c) : c \in LeafValues}
    ELSE {Star(t) : t \in ASTsOfSize(n - 1)}
         \cup UNION {{Concat(l, r) : l \in ASTsOfSize(k), r \in ASTsOfSize(n - 1 - k)}
                        : k \in 1..(n - 2)}
         \cup UNION {{Union(l, r) : l \in ASTsOfSize(k), r \in ASTsOfSize(n - 1 - k)}
                        : k \in 1..(n - 2)}

ASTsUpTo(max) == UNION {ASTsOfSize(n) : n \in 1..max}

\* The language an AST denotes (reference semantics), as a predicate on strings.
RECURSIVE Denotes(_, _)
Denotes(node, s) ==
    IF is_operand(node)
    THEN IF node.value = "ε" THEN s = <<>> ELSE s = <<node.value>>
    ELSE IF node.value = "."
    THEN \E k \in 0..Len(s) :
            /\ Denotes(node.left, SubSeq(s, 1, k))
            /\ Denotes(node.right, SubSeq(s, k + 1, Len(s)))
    ELSE IF node.value = "|"
    THEN Denotes(node.left, s) \/ Denotes(node.right, s)
    ELSE \* Star: the empty string, or a non-empty first repetition and the rest
         \/ s = <<>>
         \/ \E k \in 1..Len(s) :
               /\ Denotes(node.left, SubSeq(s, 1, k))
               /\ Denotes(node, SubSeq(s, k + 1, Len(s)))

---------------------------------------------------------------------------
(* regex_parser.py: FixedRegexParser.  A text is the sequence of its       *)
(* characters, every character a string of length one.                    *)

\* Regexes drawn as inputs have at most this many characters.
MaxRegexLen == 3

\* The characters of the regexes drawn as inputs.
RegexChars == {"a", "b", "(", ")", "|", "*", "+", "?", "[", "]", "\\", "ε"}

RECURSIVE RegexesOfLen(_)
RegexesOfLen(n) ==
    IF n = 0 THEN {<<>>}
    ELSE {Append(r, c) : r \in RegexesOfLen(n - 1), c \in RegexChars}

RegexesUpTo(max) == UNION {RegexesOfLen(n) : n \in 0..max}

\* self.precedence
precedence == [t \in {"*", "+", "?", ".", "|", "("} |->
                 IF t \in {"*", "+", "?"} THEN 4
                 ELSE IF t = "." THEN 3 ELSE IF t = "|" THEN 2 ELSE 1]

\* self.precedence.get(t, 0)
precedence_get(t) == IF t \in DOMAIN precedence THEN precedence[t] ELSE 0

STAR_LITERAL == <<"S", "T", "A", "R", "_", "L", "I", "T", "E", "R", "A", "L">>
PLUS_LITERAL == <<"P", "L", "U", "S", "_", "L", "I", "T", "E", "R", "A", "L">>
QUEST_LITERAL == <<"Q", "U", "E", "S", "T", "_", "L", "I", "T", "E", "R", "A", "L">>
PIPE_LITERAL == <<"P", "I", "P", "E", "_", "L", "I", "T", "E", "R", "A", "L">>

\* What a backslash followed by next_char is replaced by.
escape_replacement(next_char) ==
    IF next_char = "*" THEN STAR_LITERAL
    ELSE IF next_char = "+" THEN PLUS_LITERAL
    ELSE IF next_char = "?" THEN QUEST_LITERAL
    ELSE IF next_char = "|" THEN PIPE_LITERAL
    ELSE <<next_char>>

\* The loop of _expand_escape_sequences from position i (positions from 1).
RECURSIVE expand_escape_from(_, _)
expand_escape_from(text, i) ==
    IF i > Len(text) THEN <<>>
    ELSE IF i < Len(text) /\ text[i] = "\\"
    THEN escape_replacement(text[i + 1]) \o expand_escape_from(text, i + 2)
    ELSE <<text[i]>> \o expand_escape_from(text, i + 1)

expand_escape_sequences(text) == expand_escape_from(text, 1)

\* The characters of code 48 (the digit 0) to 95 (the underscore) and of code 97
\* to 122 (the small letters), in the order of their codes.  A range of a class
\* that crosses code 96 is outside the model.
CodeTable ==
    <<"0", "1", "2", "3", "4", "5", "6", "7", "8", "9", ":", ";", "<", "=", ">",
      "?", "@", "A", "B", "C", "D", "E", "F", "G", "H", "I", "J", "K", "L", "M",
      "N", "O", "P", "Q", "R", "S", "T", "U", "V", "W", "X", "Y", "Z", "[", "\\",
      "]", "^", "_">>

SmallLetters ==
    <<"a", "b", "c", "d", "e", "f", "g", "h", "i", "j", "k", "l", "m", "n", "o",
      "p", "q", "r", "s", "t", "u", "v", "w", "x", "y", "z">>

\* The code of the first character of CodeTable, less one.
CodeBase == 47

\* The code of the first small letter, less one.
SmallBase == 96

\* The code of the Greek small letter epsilon.
EpsilonCode == 949

ord(c) ==
    IF c = "ε" THEN EpsilonCode
    ELSE IF \E k \in 1..Len(SmallLetters) : SmallLetters[k] = c
    THEN SmallBase + (CHOOSE k \in 1..Len(SmallLetters) : SmallLetters[k] = c)
    ELSE CodeBase + (CHOOSE k \in 1..Len(CodeTable) : CodeTable[k] = c)

chr(code) ==
    IF code = EpsilonCode THEN "ε"
    ELSE IF code > SmallBase THEN SmallLetters[code - SmallBase]
    ELSE CodeTable[code - CodeBase]

isdigit(c) == \E k \in 1..10 : CodeTable[k] = c

isalpha(c) ==
    \/ c = "ε"
    \/ \E k \in 18..43 : CodeTable[k] = c
    \/ \E k \in 1..Len(SmallLetters) : SmallLetters[k] = c

\* [chr(code) for code in range(ord(start_char), ord(end_char) + 1)]
range_chars(start_char, end_char) ==
    [k \in 1..(ord(end_char) - ord(start_char) + 1) |-> chr(ord(start_char) + k - 1)]

\* The loop of _parse_character_class_content from position i.
RECURSIVE parse_class_from(_, _)
parse_class_from(content, i) ==
    IF i > Len(content) THEN <<>>
    ELSE IF i + 2 <= Len(content) /\ content[i + 1] = "-"
    THEN LET start_char == content[i]
             end_char == content[i + 2]
             chars == IF \/ isalpha(start_char) /\ isalpha(end_char)
                         \/ isdigit(start_char) /\ isdigit(end_char)
                      THEN range_chars(start_char, end_char)
                      ELSE <<start_char, "-", end_char>>
         IN chars \o parse_class_from(content, i + 3)
    ELSE <<content[i]>> \o parse_class_from(content, i + 1)

parse_character_class_content(content) == parse_class_from(content, 1)

\* "|".join(chars)
RECURSIVE join_with_pipe(_)
join_with_pipe(chars) ==
    IF Len(chars) = 0 THEN <<>>
    ELSE IF Len(chars) = 1 THEN <<chars[1]>>
    ELSE <<chars[1], "|">> \o join_with_pipe(Tail(chars))

expanded_class(chars) ==
    IF Len(chars) = 1 THEN <<chars[1]>>
    ELSE <<"(">> \o join_with_pipe(chars) \o <<")">>

\* The loop of _expand_character_classes from position i.
RECURSIVE expand_classes_from(_, _)
expand_classes_from(text, i) ==
    IF i > Len(text) THEN <<>>
    ELSE IF text[i] = "[" /\ \E j \in (i + 1)..Len(text) : text[j] = "]"
    THEN LET j == CHOOSE j \in (i + 1)..Len(text) :
                     /\ text[j] = "]"
                     /\ \A k \in (i + 1)..(j - 1) : text[k] # "]"
             class_content == SubSeq(text, i + 1, j - 1)
         IN expanded_class(parse_character_class_content(class_content))
            \o expand_classes_from(text, j + 1)
    ELSE <<text[i]>> \o expand_classes_from(text, i + 1)

expand_character_classes(text) == expand_classes_from(text, 1)

\* The backward scan for the opening parenthesis of the group that ends before the operator:
\* the position of the first character of the operand.
RECURSIVE group_start(_, _, _)
group_start(expanded, j, paren_count) ==
    IF j >= 1 /\ paren_count > 0
    THEN group_start(expanded, j - 1,
                     IF expanded[j] = ")" THEN paren_count + 1
                     ELSE IF expanded[j] = "(" THEN paren_count - 1
                     ELSE paren_count)
    ELSE j + 1

\* The operand taken to be the one character before the operator, also after a group.
operand_start_one_character(expanded, i) == i - 1

\* The operand of the operator at position i: the group that closes at i - 1,
\* or the one character at i - 1.
operand_start(expanded, i) ==
    IF expanded[i - 1] = ")" THEN group_start(expanded, i - 2, 1) ELSE i - 1

\* f"({operand}|ε)"
optional_of(operand) == <<"(">> \o operand \o <<"|", "ε", ")">>

\* f"{operand}{operand}*"
repeated_of(operand) == operand \o operand \o <<"*">>

\* The loop of lines 36-60 from position i.
RECURSIVE expand_optional_from(_, _)
expand_optional_from(expanded, i) ==
    IF i > Len(expanded) THEN expanded
    ELSE IF i > 1 /\ expanded[i] = "?"
    THEN LET j == operand_start(expanded, i)
             replacement == optional_of(SubSeq(expanded, j, i - 1))
         IN expand_optional_from(SubSeq(expanded, 1, j - 1) \o replacement
                                 \o SubSeq(expanded, i + 1, Len(expanded)),
                                 j + Len(replacement))
    ELSE expand_optional_from(expanded, i + 1)

\* The loop of lines 63-87 from position i.
RECURSIVE expand_plus_from(_, _)
expand_plus_from(expanded, i) ==
    IF i > Len(expanded) THEN expanded
    ELSE IF i > 1 /\ expanded[i] = "+"
    THEN LET j == operand_start(expanded, i)
             replacement == repeated_of(SubSeq(expanded, j, i - 1))
         IN expand_plus_from(SubSeq(expanded, 1, j - 1) \o replacement
                             \o SubSeq(expanded, i + 1, Len(expanded)),
                             j + Len(replacement))
    ELSE expand_plus_from(expanded, i + 1)

expand_extensions(text) ==
    expand_plus_from(
        expand_optional_from(
            expand_character_classes(expand_escape_sequences(text)), 1), 1)

\* One token for every character.
tokenize(text) == [i \in 1..Len(text) |-> text[i]]

\* Only the second test of the loop body, lines 255-257.
need_concat_after_postfix_only(prev_token, curr_token) ==
    prev_token \in {")", "*", "+", "?"} /\ curr_token \notin {"|", ")", "*", "+", "?"}

need_concat(prev_token, curr_token) ==
    \/ prev_token \notin {"|", "("} /\ curr_token \notin {"|", "*", "+", "?", ")"}
    \/ prev_token \in {")", "*", "+", "?"} /\ curr_token \notin {"|", ")", "*", "+", "?"}

RECURSIVE insert_concatenation_from(_, _)
insert_concatenation_from(tokens, i) ==
    IF i > Len(tokens) THEN <<>>
    ELSE (IF i > 1 /\ need_concat(tokens[i - 1], tokens[i]) THEN <<".">> ELSE <<>>)
         \o <<tokens[i]>> \o insert_concatenation_from(tokens, i + 1)

insert_concatenation(tokens) == insert_concatenation_from(tokens, 1)

\* The while of lines 291-294: operators leave the stack for the output down
\* to the first "(" or to the bottom.
RECURSIVE pop_until_paren(_, _)
pop_until_paren(output, operator_stack) ==
    IF Len(operator_stack) > 0 /\ operator_stack[Len(operator_stack)] # "("
    THEN pop_until_paren(Append(output, operator_stack[Len(operator_stack)]),
                         SubSeq(operator_stack, 1, Len(operator_stack) - 1))
    ELSE [output |-> output, operator_stack |-> operator_stack]

\* The while of lines 301-307.
RECURSIVE pop_by_precedence(_, _, _)
pop_by_precedence(output, operator_stack, token) ==
    IF /\ Len(operator_stack) > 0
       /\ operator_stack[Len(operator_stack)] # "("
       /\ precedence_get(operator_stack[Len(operator_stack)]) >= precedence_get(token)
    THEN pop_by_precedence(Append(output, operator_stack[Len(operator_stack)]),
                           SubSeq(operator_stack, 1, Len(operator_stack) - 1), token)
    ELSE [output |-> output, operator_stack |-> operator_stack]

\* The body of the for of lines 279-310 for one token.
shunting_yard_step(output, operator_stack, token) ==
    IF token \notin DOMAIN precedence /\ token # ")"
    THEN [output |-> Append(output, token), operator_stack |-> operator_stack]
    ELSE IF token = "("
    THEN [output |-> output, operator_stack |-> Append(operator_stack, token)]
    ELSE IF token = ")"
    THEN LET popped == pop_until_paren(output, operator_stack)
         IN IF Len(popped.operator_stack) > 0
            THEN [popped EXCEPT !.operator_stack = SubSeq(@, 1, Len(@) - 1)]
            ELSE popped
    ELSE LET popped == pop_by_precedence(output, operator_stack, token)
         IN [popped EXCEPT !.operator_stack = Append(@, token)]

\* The while of lines 312-315: what is left on the stack goes to the output,
\* the top first.
RECURSIVE drain_stack(_, _)
drain_stack(output, operator_stack) ==
    IF Len(operator_stack) = 0 THEN output
    ELSE drain_stack(Append(output, operator_stack[Len(operator_stack)]),
                     SubSeq(operator_stack, 1, Len(operator_stack) - 1))

\* The for of lines 279-310 from token i, then the while of lines 312-315.  The
\* test on st.output has the step computed here, token by token.
RECURSIVE shunting_yard_from(_, _, _)
shunting_yard_from(tokens, i, st) ==
    IF i > Len(tokens) \/ Len(st.output) < 0
    THEN drain_stack(st.output, st.operator_stack)
    ELSE shunting_yard_from(tokens, i + 1,
                            shunting_yard_step(st.output, st.operator_stack, tokens[i]))

shunting_yard(tokens) ==
    shunting_yard_from(tokens, 1, [output |-> <<>>, operator_stack |-> <<>>])

\* The outcome of postfix_to_ast: the root it returns, or the error it raises.
AstResult(root, error, node_counter) ==
    [root |-> root, error |-> error, node_counter |-> node_counter]

\* The operands a token takes from the stack.
operands_needed(token) ==
    IF token \in {"*", "+", "?"} THEN 1 ELSE IF token \in {"|", "."} THEN 2 ELSE 0

\* The two nodes popped taken in the order of popping: left = first popped.
binary_children_swapped(stack, n) == <<stack[n], stack[n - 1]>>

\* Lines 347-348: right = stack.pop(), then left = stack.pop().
binary_children(stack, n) == <<stack[n - 1], stack[n]>>

\* The for of lines 329-360 from token i, then lines 362-367.
RECURSIVE postfix_to_ast_from(_, _, _)
postfix_to_ast_from(postfix_tokens, i, stack) ==
    LET n == Len(stack)
    IN IF i > Len(postfix_tokens)
       THEN IF n # 1
            THEN AstResult(None, "stack final", i - 1)
            ELSE AstResult(stack[1], "", i - 1)
       ELSE IF n < operands_needed(postfix_tokens[i])
       THEN AstResult(None,
                      IF operands_needed(postfix_tokens[i]) = 1
                      THEN "operador unario sin operando"
                      ELSE "operador binario necesita 2 operandos", i)
       ELSE LET token == postfix_tokens[i]
            IN postfix_to_ast_from(postfix_tokens, i + 1,
                  IF operands_needed(token) = 1
                  THEN Append(SubSeq(stack, 1, n - 1),
                              ASTNode(token, stack[n], None, "unary_op"))
                  ELSE IF operands_needed(token) = 2
                  THEN Append(SubSeq(stack, 1, n - 2),
                              ASTNode(token, binary_children(stack, n)[1],
                                      binary_children(stack, n)[2], "binary_op"))
                  ELSE Append(stack, ASTNode(token, None, None, "operand")))

postfix_to_ast(postfix_tokens) == postfix_to_ast_from(postfix_tokens, 1, <<>>)

\* to_postfix, lines 267-268: the extensions are expanded and the text tokenized.
ExpandAndTokenize ==
    /\ phase = "regex"
    /\ LET expanded == expand_extensions(regex)
       IN parser' = [parser EXCEPT !.expanded = expanded, !.tokens = tokenize(expanded)]
    /\ phase' = "tokens"
    /\ UNCHANGED <<call, batch, earlier, regex, ast, builder, nfa, constructor, conv, dfa, minimizer, mini,
                   minimized_dfa, round>>

\* to_postfix, line 271.
InsertConcatenation ==
    /\ phase = "tokens"
    /\ parser' = [parser EXCEPT !.tokens = insert_concatenation(@)]
    /\ phase' = "concatenated"
    /\ UNCHANGED <<call, batch, earlier, regex, ast, builder, nfa, constructor, conv, dfa, minimizer, mini,
                   minimized_dfa, round>>

\* to_postfix, lines 274-319.
ShuntingYard ==
    /\ phase = "concatenated"
    /\ parser' = [parser EXCEPT !.output = shunting_yard(parser.tokens)]
    /\ phase' = "postfix"
    /\ UNCHANGED <<call, batch, earlier, regex, ast, builder, nfa, constructor, conv, dfa, minimizer, mini,
                   minimized_dfa, round>>

\* parse, lines 377-382: the AST is returned, or the error of postfix_to_ast
\* raised again.
PostfixToAst ==
    /\ phase = "postfix"
    /\ LET r == postfix_to_ast(parser.output)
       IN /\ parser' = [parser EXCEPT !.node_counter = r.node_counter,
                                      !.error = r.error]
          /\ ast' = r.root
          /\ phase' = IF r.error = "" THEN "ast" ELSE "parse_error"
    /\ UNCHANGED <<call, batch, earlier, regex, builder, nfa, constructor, conv, dfa, minimizer, mini,
                   minimized_dfa, round>>

parse == ExpandAndTokenize \/ InsertConcatenation \/ ShuntingYard \/ PostfixToAst

---------------------------------------------------------------------------
(* nfa_classes.py: NFAState *)

NFAState(state_id, is_final) ==
    [id |-> state_id, is_final |-> is_final,
     transitions |-> EmptyDict, epsilon_transitions |-> {}]

\* NFAState.add_transition: the defaultdict creates the key on first use.
NFAState_add_transition(st, symbol, state) ==
    IF symbol = "ε" \/ symbol = ""
    THEN [st EXCEPT !.epsilon_transitions = @ \cup {state}]
    ELSE [st EXCEPT !.transitions =
            (symbol :> ((IF symbol \in DOMAIN @ THEN @[symbol] ELSE {}) \cup {state})) @@ @]

\* dict.get(symbol, set()): no key is created.
get_transitions_for_symbol(st, symbol) ==
    IF symbol \in DOMAIN st.transitions THEN st.transitions[symbol] ELSE {}

\* self.transitions[symbol]: the defaultdict creates the missing key.
transitions_after_index(st, symbol) ==
    IF symbol \in DOMAIN st.transitions THEN st.transitions
    ELSE (symbol :> {}) @@ st.transitions

\* The transitions of the state after get_transitions_for_symbol: dict.get
\* leaves the defaultdict as it is.
transitions_after_get(st, symbol) == st.transitions

(* nfa_classes.py: NFA.  pool is the heap of NFAState objects. *)

\* NFA._collect_states: the states reached from start_state (BFS).
RECURSIVE NFA_collect_visit(_, _, _)
NFA_collect_visit(pool, visited, queue) ==
    IF queue = {} THEN visited
    ELSE LET state == CHOOSE q \in queue : TRUE
             next == UNION {pool[state].transitions[c] : c \in DOMAIN pool[state].transitions}
                     \cup pool[state].epsilon_transitions
             seen == visited \cup {state}
         IN NFA_collect_visit(pool, seen, (queue \cup next) \ seen)

\* A traversal that follows the symbol transitions only.
RECURSIVE NFA_collect_symbols_only(_, _, _)
NFA_collect_symbols_only(pool, visited, queue) ==
    IF queue = {} THEN visited
    ELSE LET state == CHOOSE q \in queue : TRUE
             next == UNION {pool[state].transitions[c] : c \in DOMAIN pool[state].transitions}
             seen == visited \cup {state}
         IN NFA_collect_symbols_only(pool, seen, (queue \cup next) \ seen)

NFA_collect_states_no_epsilon(pool, start_state) ==
    NFA_collect_symbols_only(pool, {}, {start_state})

NFA_collect_states(pool, start_state) == NFA_collect_visit(pool, {}, {start_state})

NFA(pool, start_state, final_state) ==
    [start_state |-> start_state, final_state |-> final_state,
     states |-> NFA_collect_states(pool, start_state), pool |-> pool]

\* NFA.epsilon_closure: closure and stack of the loop; a popped state adds its
\* epsilon targets that are not yet in the closure.
RECURSIVE epsilon_closure_loop(_, _, _)
epsilon_closure_loop(pool, closure, stack) ==
    IF stack = {} THEN closure
    ELSE LET state == CHOOSE q \in stack : TRUE
             fresh == pool[state].epsilon_transitions \ closure
         IN epsilon_closure_loop(pool, closure \cup fresh, (stack \ {state}) \cup fresh)

\* The states and their direct epsilon targets only.
epsilon_closure_one_step(n, states) ==
    states \cup UNION {n.pool[s].epsilon_transitions : s \in states}

epsilon_closure(n, states) ==
    IF states = {} THEN {} ELSE epsilon_closure_loop(n.pool, states, states)

\* NFA.get_alphabet
NFA_get_alphabet(n) ==
    UNION {DOMAIN n.pool[s].transitions : s \in n.states} \ {"ε"}

\* One symbol of NFA.simulate: the targets of the current states, closed.
NFA_move(n, current_states, symbol) ==
    epsilon_closure(n, UNION {get_transitions_for_symbol(n.pool[s], symbol) : s \in current_states})

\* The NFA after get_transitions_for_symbol(symbol) was called on each of the states.
NFA_after_reads(n, states, symbol) ==
    [n EXCEPT !.pool = [s \in DOMAIN n.pool |->
        IF s \in states
        THEN [n.pool[s] EXCEPT !.transitions = transitions_after_get(n.pool[s], symbol)]
        ELSE n.pool[s]]]

\* The NFA after NFA.simulate: every symbol processed is looked up in every
\* current state.
RECURSIVE NFA_after_simulate_from(_, _, _)
NFA_after_simulate_from(n, current_states, input_string) ==
    IF input_string = <<>> THEN n
    ELSE LET next == NFA_move(n, current_states, Head(input_string))
             read == NFA_after_reads(n, current_states, Head(input_string))
         IN IF next = {} THEN read
            ELSE NFA_after_simulate_from(read, next, Tail(input_string))

NFA_after_simulate(n, input_string) ==
    NFA_after_simulate_from(n, epsilon_closure(n, {n.start_state}), input_string)

\* NFA.simulate: rejects as soon as the set of current states is empty.
RECURSIVE NFA_simulate_from(_, _, _)
NFA_simulate_from(n, current_states, input_string) ==
    IF input_string = <<>>
    THEN \E s \in current_states : n.pool[s].is_final
    ELSE LET next == NFA_move(n, current_states, Head(input_string))
         IN IF next = {} THEN FALSE
            ELSE NFA_simulate_from(n, next, Tail(input_string))

NFA_simulate(n, input_string) ==
    NFA_simulate_from(n, epsilon_closure(n, {n.start_state}), input_string)

---------------------------------------------------------------------------
(* thompson_builder.py.  A build threads b = [state_counter, pool]: the     *)
(* builder's counter and the NFAState objects created so far.  A result is *)
(* [b, start_state, final_state, error].                                   *)

\* ThompsonNFABuilder.new_state
Thompson_new_state(b, is_final) ==
    [state_counter |-> b.state_counter + 1,
     pool |-> (b.state_counter :> NFAState(b.state_counter, is_final)) @@ b.pool]

add_nfa_transition(b, from, symbol, to) ==
    [b EXCEPT !.pool[from] = NFAState_add_transition(@, symbol, to)]

\* The final mark of a composed operand left as it was.
set_not_final_skipped(b, state) == b

set_not_final(b, state) == [b EXCEPT !.pool[state].is_final = FALSE]

Built(b, start_state, final_state) ==
    [b |-> b, start_state |-> start_state, final_state |-> final_state, error |-> FALSE]

Failed(b) == [b |-> b, start_state |-> -1, final_state |-> -1, error |-> TRUE]

build_basic_nfa(b, symbol) ==
    LET start == b.state_counter
        b1 == Thompson_new_state(b, FALSE)
        final == b1.state_counter
        b2 == Thompson_new_state(b1, TRUE)
    IN Built(add_nfa_transition(b2, start, symbol, final), start, final)

\* nfa1.final_state stops being final and gets an epsilon edge to nfa2.start_state.
connect_concatenation(b, nfa1, nfa2) ==
    Built(add_nfa_transition(set_not_final(b, nfa1.final_state),
                             nfa1.final_state, "ε", nfa2.start_state),
          nfa1.start_state, nfa2.final_state)

connect_union(b, nfa1, nfa2) ==
    LET new_start == b.state_counter
        b1 == Thompson_new_state(b, FALSE)
        new_final == b1.state_counter
        b2 == Thompson_new_state(b1, TRUE)
        b3 == add_nfa_transition(b2, new_start, "ε", nfa1.start_state)
        b4 == add_nfa_transition(b3, new_start, "ε", nfa2.start_state)
        b5 == set_not_final(set_not_final(b4, nfa1.final_state), nfa2.final_state)
        b6 == add_nfa_transition(b5, nfa1.final_state, "ε", new_final)
        b7 == add_nfa_transition(b6, nfa2.final_state, "ε", new_final)
    IN Built(b7, new_start, new_final)

\* Kleene closure without the edge from the new start to the new final.
connect_kleene_no_skip(b, inner) ==
    LET new_start == b.state_counter
        b1 == Thompson_new_state(b, FALSE)
        new_final == b1.state_counter
        b2 == Thompson_new_state(b1, TRUE)
        b4 == add_nfa_transition(b2, new_start, "ε", inner.start_state)
        b5 == add_nfa_transition(b4, inner.final_state, "ε", new_final)
        b6 == add_nfa_transition(b5, inner.final_state, "ε", inner.start_state)
    IN Built(set_not_final(b6, inner.final_state), new_start, new_final)

connect_kleene(b, inner) ==
    LET new_start == b.state_counter
        b1 == Thompson_new_state(b, FALSE)
        new_final == b1.state_counter
        b2 == Thompson_new_state(b1, TRUE)
        b3 == add_nfa_transition(b2, new_start, "ε", new_final)
        b4 == add_nfa_transition(b3, new_start, "ε", inner.start_state)
        b5 == add_nfa_transition(b4, inner.final_state, "ε", new_final)
        b6 == add_nfa_transition(b5, inner.final_state, "ε", inner.start_state)
    IN Built(set_not_final(b6, inner.final_state), new_start, new_final)

RECURSIVE build_nfa_recursive(_, _)
build_nfa_recursive(b, node) ==
    IF is_operand(node) THEN build_basic_nfa(b, node.value)
    ELSE IF node.value \in {".", "|"}
    THEN LET nfa1 == build_nfa_recursive(b, node.left)
         IN IF nfa1.error THEN nfa1
            ELSE LET nfa2 == build_nfa_recursive(nfa1.b, node.right)
                 IN IF nfa2.error THEN nfa2
                    ELSE IF node.value = "."
                    THEN connect_concatenation(nfa2.b, nfa1, nfa2)
                    ELSE connect_union(nfa2.b, nfa1, nfa2)
    ELSE IF node.value = "*"
    THEN LET inner == build_nfa_recursive(b, node.left)
         IN IF inner.error THEN inner ELSE connect_kleene(inner.b, inner)
    ELSE Failed(b)   \* raise ValueError("Operador no soportado en Thompson")

\* reset_counter left out.
ThompsonNFABuilder_reset_skipped(b) == b

ThompsonNFABuilder_reset_counter(b) == [b EXCEPT !.state_counter = 0]

\* reset_counter, then the recursive build; the NFAState objects of the call are
\* new objects.
build_nfa_from_ast(b, ast_root) ==
    build_nfa_recursive([state_counter |-> ThompsonNFABuilder_reset_counter(b).state_counter,
                         pool |-> EmptyDict], ast_root)

---------------------------------------------------------------------------
(* dfa_classes.py *)

\* dict.get(symbol) on a missing key: Python's None for a state reference.
NoState == -1

DFAState(state_id, is_final, nfa_states) ==
    [id |-> state_id, is_final |-> is_final,
     transitions |-> EmptyDict, nfa_states |-> nfa_states]

\* DFAState.add_transition: a dict assignment, which replaces an existing entry.
DFAState_add_transition(st, symbol, state) ==
    [st EXCEPT !.transitions = (symbol :> state) @@ @]

get_transition_for_symbol(st, symbol) ==
    IF symbol \in DOMAIN st.transitions THEN st.transitions[symbol] ELSE NoState

\* DFA._collect_info: the states reached from start_state (DFS).
RECURSIVE DFA_collect_visit(_, _, _)
DFA_collect_visit(pool, visited, stack) ==
    IF stack = {} THEN visited
    ELSE LET state == CHOOSE q \in stack : TRUE
             next == {pool[state].transitions[c] : c \in DOMAIN pool[state].transitions}
             seen == visited \cup {state}
         IN DFA_collect_visit(pool, seen, (stack \cup next) \ seen)

\* DFA.__init__: states, alphabet and final_states are derived by _collect_info.
DFA(pool, start_state) ==
    LET states == DFA_collect_visit(pool, {}, {start_state})
    IN [start_state |-> start_state,
        final_states |-> {s \in states : pool[s].is_final},
        states |-> states,
        alphabet |-> UNION {DOMAIN pool[s].transitions : s \in states},
        pool |-> pool]

\* DFA.simulate: rejects at the first symbol with no transition.
RECURSIVE DFA_simulate_from(_, _, _)
DFA_simulate_from(d, current_state, input_string) ==
    IF input_string = <<>> THEN d.pool[current_state].is_final
    ELSE LET next_state == get_transition_for_symbol(d.pool[current_state], Head(input_string))
         IN IF next_state = NoState THEN FALSE
            ELSE DFA_simulate_from(d, next_state, Tail(input_string))

DFA_simulate(d, input_string) == DFA_simulate_from(d, d.start_state, input_string)

\* DFA.simulate_step_by_step, lines 122-140 from symbol i: a missing
\* transition appends a step without a state and ends the loop, current_state
\* staying the last state reached.
RECURSIVE DFA_steps_from(_, _, _, _)
DFA_steps_from(d, current_state, input_string, i) ==
    IF i > Len(input_string)
    THEN [steps |-> <<>>, current_state |-> current_state]
    ELSE LET symbol == input_string[i]
             next_state == get_transition_for_symbol(d.pool[current_state], symbol)
         IN IF next_state = NoState
            THEN [steps |-> <<[step |-> i, symbol |-> symbol, state |-> NoState]>>,
                  current_state |-> current_state]
            ELSE LET rest == DFA_steps_from(d, next_state, input_string, i + 1)
                 IN [steps |-> <<[step |-> i, symbol |-> symbol, state |-> next_state]>>
                                  \o rest.steps,
                     current_state |-> rest.current_state]

\* DFA.simulate_step_by_step: the dictionary returned, lines 142-146;
\* current_state is a DFAState, so accepted is its is_final.
DFA_simulate_step_by_step(d, input_string) ==
    LET run == DFA_steps_from(d, d.start_state, input_string, 1)
    IN [steps |-> <<[step |-> 0, symbol |-> "", state |-> d.start_state]>> \o run.steps,
        accepted |-> d.pool[run.current_state].is_final,
        final_state |-> run.current_state]

---------------------------------------------------------------------------
(* subset_construction.py *)

\* sorted(alphabet): the symbols in increasing order of their codes.
SymbolOrder == <<"a", "b", "c", "d">>

sorted(alphabet) == SelectSeq(SymbolOrder, LAMBDA c : c \in alphabet)

SubsetConstructor_reset_counter(c) ==
    [state_counter |-> 0, subset_to_dfa_state |-> EmptyDict]

\* all() written for any().
all_final(n, subset) == \A s \in subset : n.pool[s].is_final

\* any(state.is_final for state in subset)
any_final(n, subset) == \E s \in subset : n.pool[s].is_final

\* The test of line 92 left out: a state is made for the empty subset too.
subset_is_empty_ignored(next_subset_with_epsilon) == FALSE

\* Line 92, if next_subset_with_epsilon: an empty subset gets no transition.
subset_is_empty(next_subset_with_epsilon) == next_subset_with_epsilon = {}

\* A subset never found in the map: a new state for every transition.
subset_known_never(subset_to_dfa_state, next_subset_frozen) == FALSE

\* Lines 93-96: the frozenset of the subset is a key of the map.
subset_known(subset_to_dfa_state, next_subset_frozen) ==
    next_subset_frozen \in DOMAIN subset_to_dfa_state

\* Lines 76-87 without the epsilon-closure of the targets.
next_subset_without_closure(n, current_subset, symbol) ==
    UNION {get_transitions_for_symbol(n.pool[s], symbol) : s \in current_subset}

\* The union of the symbol targets of the subset's states, epsilon-closed; the
\* empty set when there is no target.
next_subset_with_epsilon(n, current_subset, symbol) ==
    LET next_subset == UNION {get_transitions_for_symbol(n.pool[s], symbol) : s \in current_subset}
    IN IF next_subset # {} THEN epsilon_closure(n, next_subset) ELSE {}

\* work_queue.append outside the test of line 96: known subsets are queued again.
work_queue_append_always(work_queue, known, next_subset_frozen) ==
    Append(work_queue, next_subset_frozen)

\* Lines 96-104: only a subset that got a new DFA state is appended to the queue.
work_queue_append(work_queue, known, next_subset_frozen) ==
    IF known THEN work_queue ELSE Append(work_queue, next_subset_frozen)

\* add_transition called on the target state.
dfa_transition_reversed(current_dfa_state, next_dfa_state) ==
    <<next_dfa_state, current_dfa_state>>

\* The state that receives the transition and the state it leads to.
dfa_transition_ends(current_dfa_state, next_dfa_state) ==
    <<current_dfa_state, next_dfa_state>>

\* Lines 31-55: reset, the start state for the closure of the NFA's start state,
\* the work queue seeded with it.
StartSubsetConstruction ==
    /\ phase = "nfa"
    /\ LET c0 == SubsetConstructor_reset_counter(constructor)
           initial_subset == epsilon_closure(nfa, {nfa.start_state})
           dfa_start == c0.state_counter
       IN /\ constructor' = [state_counter |-> c0.state_counter + 1,
                             subset_to_dfa_state |->
                                (initial_subset :> dfa_start) @@ c0.subset_to_dfa_state]
          /\ conv' = [alphabet |-> NFA_get_alphabet(nfa),
                      dfa_start |-> dfa_start,
                      work_queue |-> <<initial_subset>>,
                      processed |-> {},
                      current |-> {},
                      symbols |-> <<>>,
                      pool |-> (dfa_start :> DFAState(dfa_start, any_final(nfa, initial_subset),
                                                      initial_subset))]
    /\ phase' = "subset_loop"
    /\ UNCHANGED <<call, batch, earlier, regex, parser, ast, builder, nfa, dfa, minimizer, mini, minimized_dfa, round>>

\* Lines 60-68: one turn of the while loop up to the loop over the symbols.
PopSubset ==
    /\ phase = "subset_loop"
    /\ conv.work_queue # <<>>
    /\ LET current_subset == Head(conv.work_queue)
       IN IF current_subset \in conv.processed
          THEN /\ conv' = [conv EXCEPT !.work_queue = Tail(@)]
               /\ phase' = phase
          ELSE /\ conv' = [conv EXCEPT !.work_queue = Tail(@),
                                       !.processed = @ \cup {current_subset},
                                       !.current = current_subset,
                                       !.symbols = sorted(conv.alphabet)]
               /\ phase' = IF sorted(conv.alphabet) = <<>> THEN "subset_loop"
                           ELSE "subset_symbols"
    /\ UNCHANGED <<call, batch, earlier, regex, parser, ast, builder, nfa, constructor, dfa, minimizer, mini, minimized_dfa, round>>

\* Lines 74-112: one symbol of the current subset.
ProcessSymbol ==
    /\ phase = "subset_symbols"
    /\ LET symbol == Head(conv.symbols)
           target == next_subset_with_epsilon(nfa, conv.current, symbol)
           current_dfa_state == constructor.subset_to_dfa_state[conv.current]
           known == subset_known(constructor.subset_to_dfa_state, target)
           next_dfa_state == IF known THEN constructor.subset_to_dfa_state[target]
                             ELSE constructor.state_counter
           pool1 == IF known THEN conv.pool
                    ELSE (next_dfa_state :> DFAState(next_dfa_state, any_final(nfa, target),
                                                     target)) @@ conv.pool
           ends == dfa_transition_ends(current_dfa_state, next_dfa_state)
           rest == Tail(conv.symbols)
       IN /\ IF subset_is_empty(target)
             THEN /\ conv' = [conv EXCEPT !.symbols = rest]
                  /\ UNCHANGED constructor
             ELSE /\ constructor' =
                        IF known THEN constructor
                        ELSE [state_counter |-> constructor.state_counter + 1,
                              subset_to_dfa_state |->
                                 (target :> next_dfa_state) @@ constructor.subset_to_dfa_state]
                  /\ conv' = [conv EXCEPT
                        !.symbols = rest,
                        !.work_queue = work_queue_append(@, known, target),
                        !.pool = [pool1 EXCEPT ![ends[1]] =
                                    DFAState_add_transition(@, symbol, ends[2])]]
          /\ nfa' = NFA_after_reads(nfa, conv.current, symbol)
          /\ phase' = IF rest = <<>> THEN "subset_loop" ELSE "subset_symbols"
    /\ UNCHANGED <<call, batch, earlier, regex, parser, ast, builder, dfa, minimizer, mini, minimized_dfa, round>>

\* Lines 114-127: the queue is empty; the DFA object is built and returned.
FinishSubsetConstruction ==
    /\ phase = "subset_loop"
    /\ conv.work_queue = <<>>
    /\ dfa' = DFA(conv.pool, conv.dfa_start)
    /\ phase' = "dfa"
    /\ UNCHANGED <<call, batch, earlier, regex, parser, ast, builder, nfa, constructor, conv, minimizer, mini, minimized_dfa, round>>

nfa_to_dfa ==
    \/ StartSubsetConstruction
    \/ PopSubset
    \/ ProcessSymbol
    \/ FinishSubsetConstruction

---------------------------------------------------------------------------
(* dfa_minimization.py *)

\* reset_counter left out.
DFAMinimizer_reset_skipped(m) == m

DFAMinimizer_reset_counter(m) == [state_counter |-> 0]

\* _get_reachable_states: BFS over the transitions from the start state.
get_reachable_states(d) == DFA_collect_visit(d.pool, {}, {d.start_state})

\* The 0-based index of the first partition that holds the state, None if none.
target_partition_idx(all_partitions, target_state) ==
    IF \E i \in 1..Len(all_partitions) : target_state \in all_partitions[i]
    THEN (CHOOSE i \in 1..Len(all_partitions) :
            /\ target_state \in all_partitions[i]
            /\ \A j \in 1..(i - 1) : target_state \notin all_partitions[j]) - 1
    ELSE NoState

\* The signature cut after the first symbol of the alphabet.
signature_first_symbol(d, state, all_partitions, alphabet) ==
    [i \in 1..(IF Len(alphabet) > 1 THEN 1 ELSE Len(alphabet)) |->
        LET target_state == get_transition_for_symbol(d.pool[state], alphabet[i])
        IN IF target_state = NoState THEN NoState
           ELSE target_partition_idx(all_partitions, target_state)]

\* The signature of a state in _refine_partition: per symbol of the sorted
\* alphabet, None when there is no transition, else the partition of the target.
signature(d, state, all_partitions, alphabet) ==
    [i \in 1..Len(alphabet) |->
        LET target_state == get_transition_for_symbol(d.pool[state], alphabet[i])
        IN IF target_state = NoState THEN NoState
           ELSE target_partition_idx(all_partitions, target_state)]

\* _refine_partition that never divides.
refine_partition_undivided(d, partition, all_partitions, alphabet) == {partition}

\* _refine_partition: the states of the partition grouped by signature.
refine_partition(d, partition, all_partitions, alphabet) ==
    IF Cardinality(partition) = 1 THEN {partition}
    ELSE {{s \in partition : signature(d, s, all_partitions, alphabet)
                             = signature(d, t, all_partitions, alphabet)} : t \in partition}

\* list(transition_signatures.values()): the groups in the order their first
\* member came up in the iteration over the partition, a set.
Orderings(S) ==
    {f \in [1..Cardinality(S) -> S] : \A i, j \in 1..Cardinality(S) : f[i] = f[j] => i = j}

\* The lists new_partitions can be after one pass of the while loop.
RECURSIVE refined_partitions(_, _, _, _)
refined_partitions(d, rest, all_partitions, alphabet) ==
    IF rest = <<>> THEN {<<>>}
    ELSE LET sub_partitions ==
                 IF Cardinality(Head(rest)) = 1 THEN {<<Head(rest)>>}
                 ELSE Orderings(refine_partition(d, Head(rest), all_partitions, alphabet))
         IN {h \o t : h \in sub_partitions,
                      t \in refined_partitions(d, Tail(rest), all_partitions, alphabet)}

\* changed set on every pass.
pass_changed_always(d, all_partitions, alphabet) == TRUE

\* changed: some partition of more than one state was divided.
pass_changed(d, all_partitions, alphabet) ==
    \E i \in 1..Len(all_partitions) :
        /\ Cardinality(all_partitions[i]) # 1
        /\ Cardinality(refine_partition(d, all_partitions[i], all_partitions, alphabet)) > 1

\* The final states not taken out of the first block.
initial_partitions_overlapping(d, reachable_states) ==
    LET final_states == {s \in reachable_states : d.pool[s].is_final}
    IN <<reachable_states>> \o (IF final_states # {} THEN <<final_states>> ELSE <<>>)

\* The initial partition without the division into final and non-final states.
initial_partitions_one_block(d, reachable_states) == <<reachable_states>>

\* The initial partition: the non-final block, then the final block, if not empty.
initial_partitions(d, reachable_states) ==
    LET final_states == {s \in reachable_states : d.pool[s].is_final}
        non_final_states == reachable_states \ final_states
    IN (IF non_final_states # {} THEN <<non_final_states>> ELSE <<>>)
       \o (IF final_states # {} THEN <<final_states>> ELSE <<>>)

\* Line 171 with the mark left as new_state() made it.
representative_never_final(d, partition) == FALSE

\* Line 171: the representative is final when some state of the partition is.
representative_is_final(d, partition) == \E s \in partition : d.pool[s].is_final

\* The representative that receives a transition and the one it leads to.
min_transition_ends(representative, target_representative) ==
    <<representative, target_representative>>

\* Lines 29-60: reset; a DFA of at most one state is returned as it is.
StartMinimize ==
    /\ phase = "dfa"
    /\ minimizer' = DFAMinimizer_reset_counter(minimizer)
    /\ IF Cardinality(dfa.states) <= 1
       THEN /\ minimized_dfa' = dfa
            /\ mini' = None
            /\ phase' = "minimized"
       ELSE /\ LET reachable_states == get_reachable_states(dfa)
               IN mini' = [reachable_states |-> reachable_states,
                           partitions |-> initial_partitions(dfa, reachable_states),
                           alphabet |-> sorted(dfa.alphabet),
                           iteration |-> 0,
                           partition_idx |-> 0,
                           sample_state |-> NoState,
                           symbols |-> {},
                           state_to_partition |-> EmptyDict,
                           partition_representatives |-> EmptyDict,
                           pool |-> EmptyDict]
            /\ minimized_dfa' = None
            /\ phase' = "refine"
    /\ UNCHANGED <<call, batch, earlier, regex, parser, ast, builder, nfa, constructor, conv, dfa, round>>

\* Lines 63-91: one pass of the while loop.
RefinePass ==
    /\ phase = "refine"
    /\ \E new_partitions \in refined_partitions(dfa, mini.partitions, mini.partitions,
                                                mini.alphabet) :
          mini' = [mini EXCEPT !.partitions = new_partitions, !.iteration = @ + 1]
    /\ phase' = IF pass_changed(dfa, mini.partitions, mini.alphabet) THEN "refine"
                ELSE "build"
    /\ UNCHANGED <<call, batch, earlier, regex, parser, ast, builder, nfa, constructor, conv, dfa, minimizer, minimized_dfa, round>>

\* _build_minimized_dfa, lines 163-177: one new state per partition, final when
\* some state of the partition is; every state mapped to its partition.
BuildRepresentatives ==
    /\ phase = "build"
    /\ LET n == Len(mini.partitions)
           first == minimizer.state_counter
       IN /\ minimizer' = [state_counter |-> first + n]
          /\ mini' = [mini EXCEPT
                !.partition_representatives = [idx \in 0..(n - 1) |-> first + idx],
                !.pool = [id \in first..(first + n - 1) |->
                            DFAState(id, representative_is_final(
                                            dfa, mini.partitions[id - first + 1]), {})],
                !.state_to_partition =
                    [s \in UNION {mini.partitions[i] : i \in 1..n} |->
                        (CHOOSE i \in 1..n :
                            /\ s \in mini.partitions[i]
                            /\ \A j \in (i + 1)..n : s \notin mini.partitions[j]) - 1],
                !.partition_idx = 0,
                !.sample_state = NoState]
    /\ phase' = "build_transitions"
    /\ UNCHANGED <<call, batch, earlier, regex, parser, ast, builder, nfa, constructor, conv, dfa, minimized_dfa, round>>

\* Line 183: next(iter(partition)), any state of the partition.
PickSample ==
    /\ phase = "build_transitions"
    /\ mini.partition_idx < Len(mini.partitions)
    /\ mini.sample_state = NoState
    /\ \E sample_state \in mini.partitions[mini.partition_idx + 1] :
          mini' = IF dfa.alphabet = {}
                  THEN [mini EXCEPT !.partition_idx = @ + 1]
                  ELSE [mini EXCEPT !.sample_state = sample_state,
                                    !.symbols = dfa.alphabet]
    /\ UNCHANGED <<call, batch, earlier, regex, parser, phase, ast, builder, nfa, constructor, conv, dfa, minimizer,
                   minimized_dfa, round>>

\* Lines 186-193: one symbol of the alphabet (a set) for the current partition.
AddMinTransition ==
    /\ phase = "build_transitions"
    /\ mini.sample_state # NoState
    /\ \E symbol \in mini.symbols :
          LET target_state == get_transition_for_symbol(dfa.pool[mini.sample_state], symbol)
              representative == mini.partition_representatives[mini.partition_idx]
              rest == mini.symbols \ {symbol}
              stepped == IF rest = {}
                         THEN [mini EXCEPT !.symbols = rest, !.sample_state = NoState,
                                           !.partition_idx = @ + 1]
                         ELSE [mini EXCEPT !.symbols = rest]
          IN IF target_state = NoState
             THEN mini' = stepped
             ELSE LET target_representative ==
                          mini.partition_representatives[mini.state_to_partition[target_state]]
                      ends == min_transition_ends(representative, target_representative)
                  IN mini' = [stepped EXCEPT !.pool[ends[1]] =
                                 DFAState_add_transition(@, symbol, ends[2])]
    /\ UNCHANGED <<call, batch, earlier, regex, parser, phase, ast, builder, nfa, constructor, conv, dfa, minimizer,
                   minimized_dfa, round>>

\* Lines 195-203: the representative of the start state's partition is the start.
FinishMinimize ==
    /\ phase = "build_transitions"
    /\ mini.partition_idx = Len(mini.partitions)
    /\ LET start_partition_idx == mini.state_to_partition[dfa.start_state]
           minimized_start == mini.partition_representatives[start_partition_idx]
       IN minimized_dfa' = DFA(mini.pool, minimized_start)
    /\ phase' = "minimized"
    /\ UNCHANGED <<call, batch, earlier, regex, parser, ast, builder, nfa, constructor, conv, dfa, minimizer, mini, round>>

minimize_dfa ==
    \/ StartMinimize
    \/ RefinePass
    \/ BuildRepresentatives
    \/ PickSample
    \/ AddMinTransition
    \/ FinishMinimize

---------------------------------------------------------------------------
(* Input automata built directly from NFAState, NFA, DFAState and DFA: the  *)
(* object graph reached from state 0, the start state.                      *)

\* The sets of at most k edges.
EdgeSets(edges, k) ==
    {{}} \cup {{t[i] : i \in 1..k} : t \in [1..k -> edges]}

\* The NFAState objects after add_transition(symbol, to) for every edge.
NFAPool(ids, E, finals) ==
    [s \in ids |->
        [id |-> s, is_final |-> s \in finals,
         transitions |-> [c \in {x \in Symbols : \E t \in ids : <<s, x, t>> \in E} |->
                            {t \in ids : <<s, c, t>> \in E}],
         epsilon_transitions |-> {t \in ids : <<s, "ε", t>> \in E}]]

NFAsOfSize(n) ==
    LET ids == 0..(n - 1)
    IN {NFA(NFAPool(ids, E, finals), 0, n - 1) :
            E \in {X \in EdgeSets(ids \X (Symbols \cup {"ε"}) \X ids, MaxNfaEdges) :
                      NFA_collect_states(NFAPool(ids, X, {}), 0) = ids},
            finals \in SUBSET ids}

NFAsUpTo(max) == UNION {NFAsOfSize(n) : n \in 1..max}

\* The DFAState objects after add_transition for every entry of delta that is a state.
DFAPool(ids, delta, finals) ==
    [s \in ids |->
        [id |-> s, is_final |-> s \in finals,
         transitions |-> [c \in {x \in Symbols : delta[s][x] # NoState} |-> delta[s][c]],
         nfa_states |-> {}]]

DFAsOfSize(n) ==
    LET ids == 0..(n - 1)
    IN {DFA(DFAPool(ids, delta, finals), 0) :
            delta \in {x \in [ids -> [Symbols -> ids \cup {NoState}]] :
                          DFA_collect_visit(DFAPool(ids, x, {}), {}, {0}) = ids},
            finals \in SUBSET ids}

DFAsUpTo(max) == UNION {DFAsOfSize(n) : n \in 1..max}

---------------------------------------------------------------------------
Init ==
    /\ regex = None
    /\ parser = None
    /\ phase = "ast"
    /\ ast \in ASTsUpTo(MaxAstNodes)
    /\ builder = [state_counter |-> 0]
    /\ nfa = None
    /\ constructor = [state_counter |-> 0, subset_to_dfa_state |-> EmptyDict]
    /\ conv = None
    /\ dfa = None
    /\ minimizer = [state_counter |-> 0]
    /\ mini = None
    /\ minimized_dfa = None
    /\ round = 1
    /\ earlier = None
    /\ call = None
    /\ batch = None

BuildNfa ==
    /\ phase = "ast"
    /\ LET r == build_nfa_from_ast(builder, ast)
       IN /\ builder' = [state_counter |-> r.b.state_counter]
          /\ IF r.error
             THEN phase' = "error" /\ nfa' = None
             ELSE phase' = "nfa" /\ nfa' = NFA(r.b.pool, r.start_state, r.final_state)
    /\ UNCHANGED <<call, batch, earlier, regex, parser, ast, constructor, conv, dfa, minimizer, mini, minimized_dfa, round>>

Next == BuildNfa \/ nfa_to_dfa \/ minimize_dfa

\* The pipeline from an AST: build_nfa_from_ast, nfa_to_dfa, minimize_dfa.
Spec == Init /\ [][Next]_vars

\* nfa_to_dfa on an NFA built by hand.
InitNfa ==
    /\ regex = None
    /\ parser = None
    /\ phase = "nfa"
    /\ ast = None
    /\ builder = [state_counter |-> 0]
    /\ nfa \in NFAsUpTo(MaxNfaStates)
    /\ constructor = [state_counter |-> 0, subset_to_dfa_state |-> EmptyDict]
    /\ conv = None
    /\ dfa = None
    /\ minimizer = [state_counter |-> 0]
    /\ mini = None
    /\ minimized_dfa = None
    /\ round = 1
    /\ earlier = None
    /\ call = None
    /\ batch = None

SpecNfa == InitNfa /\ [][nfa_to_dfa]_vars

\* nfa_to_dfa runs to its return: the interpreter always takes the next step.
SpecNfaFair == InitNfa /\ [][nfa_to_dfa]_vars /\ WF_vars(nfa_to_dfa)

\* minimize_dfa on a DFA built by hand, and once more on its result.
InitDfa ==
    /\ regex = None
    /\ parser = None
    /\ phase = "dfa"
    /\ ast = None
    /\ builder = [state_counter |-> 0]
    /\ nfa = None
    /\ constructor = [state_counter |-> 0, subset_to_dfa_state |-> EmptyDict]
    /\ conv = None
    /\ dfa \in DFAsUpTo(MaxDfaStates)
    /\ minimizer = [state_counter |-> 0]
    /\ mini = None
    /\ minimized_dfa = None
    /\ round = 1
    /\ earlier = None
    /\ call = None
    /\ batch = None

MinimizeAgain ==
    /\ phase = "minimized"
    /\ round = 1
    /\ dfa' = minimized_dfa
    /\ minimized_dfa' = None
    /\ round' = 2
    /\ phase' = "dfa"
    /\ UNCHANGED <<call, batch, earlier, regex, parser, ast, builder, nfa, constructor, conv, minimizer, mini>>

NextDfa == minimize_dfa \/ MinimizeAgain

SpecDfa == InitDfa /\ [][NextDfa]_vars

\* minimize_dfa from its call to the end of its refinement loop, lines 24-91:
\* the interpreter always takes the next step.
NextRefine == StartMinimize \/ RefinePass

SpecDfaFair == InitDfa /\ [][NextRefine]_vars /\ WF_vars(NextRefine)

\* parse on a regex, and build_nfa_from_ast on the AST it returns.
InitParse ==
    /\ regex \in RegexesUpTo(MaxRegexLen)
    /\ parser = [node_counter |-> 0, expanded |-> <<>>, tokens |-> <<>>,
                 output |-> <<>>, error |-> ""]
    /\ phase = "regex"
    /\ ast = None
    /\ builder = [state_counter |-> 0]
    /\ nfa = None
    /\ constructor = [state_counter |-> 0, subset_to_dfa_state |-> EmptyDict]
    /\ conv = None
    /\ dfa = None
    /\ minimizer = [state_counter |-> 0]
    /\ mini = None
    /\ minimized_dfa = None
    /\ round = 1
    /\ earlier = None
    /\ call = None
    /\ batch = None

NextParse == parse \/ BuildNfa

SpecParse == InitParse /\ [][NextParse]_vars

\* The regexes of the worked examples: (a|b)*abb(a|b)*, a?b+ and [a-c]d.
ClassicRegex ==
    <<"(", "a", "|", "b", ")", "*", "a", "b", "b", "(", "a", "|", "b", ")", "*">>

OptionalPlusRegex == <<"a", "?", "b", "+">>

ClassRegex == <<"[", "a", "-", "c", "]", "d">>

\* Operands of one literal character and of one parenthesized group, and the
\* regexes that put ? or + after one of them.
SugarOperands ==
    {<<"a">>, <<"b">>, <<"(", "a", ")">>, <<"(", "a", "b", ")">>,
     <<"(", "a", "|", "b", ")">>, <<"(", "a", "*", ")">>,
     <<"(", "(", "a", ")", "b", ")">>, <<"(", "a", "?", ")">>, <<"(", "b", "+", ")">>}

SugarRegexes == {operand \o <<op>> : operand \in SugarOperands, op \in {"?", "+"}}

\* Classes of one member and of two.
ClassRegexes ==
    {<<"[", "a", "]">>, <<"[", "*", "]">>, <<"[", "+", "]">>, <<"[", "a", "b", "]">>}

ExampleRegexes ==
    {ClassicRegex, OptionalPlusRegex, ClassRegex} \cup SugarRegexes \cup ClassRegexes

\* The whole pipeline on a regex: parse, build_nfa_from_ast, nfa_to_dfa, minimize_dfa.
InitPipeline ==
    /\ regex \in ExampleRegexes
    /\ parser = [node_counter |-> 0, expanded |-> <<>>, tokens |-> <<>>,
                 output |-> <<>>, error |-> ""]
    /\ phase = "regex"
    /\ ast = None
    /\ builder = [state_counter |-> 0]
    /\ nfa = None
    /\ constructor = [state_counter |-> 0, subset_to_dfa_state |-> EmptyDict]
    /\ conv = None
    /\ dfa = None
    /\ minimizer = [state_counter |-> 0]
    /\ mini = None
    /\ minimized_dfa = None
    /\ round = 1
    /\ earlier = None
    /\ call = None
    /\ batch = None

NextPipeline == parse \/ BuildNfa \/ nfa_to_dfa \/ minimize_dfa

SpecPipeline == InitPipeline /\ [][NextPipeline]_vars

---------------------------------------------------------------------------
(* main.py: ThompsonNFADemo.run_from_file and process_expression.  batch is   *)
(* [expressions, i, results, tested, interrupted].                           *)

\* The largest number of expressions in the file.
MaxBatchLen == 2

\* The lines of the file: expressions that parse and expressions that do not.
BatchRegexes ==
    {<<"a">>, <<"a", "b">>, <<"a", "*">>, <<"*">>, <<"(", "a">>, <<"a", "|">>}

BatchesUpTo(max) == UNION {[1..k -> BatchRegexes] : k \in 1..max}

\* Line 287: the test strings for every expression of the file.
test_strings ==
    <<<<>>, <<"a">>, <<"b">>, <<"a", "b">>, <<"b", "a">>, <<"a", "a">>, <<"b", "b">>,
      <<"a", "a", "a">>, <<"b", "b", "b">>, <<"a", "b", "a">>>>

\* ThompsonNFABuilder.validate_nfa: one final state, the start and the final state
\* among the states, every transition into the states.
validate_nfa(n) ==
    /\ Cardinality({s \in n.states : n.pool[s].is_final}) = 1
    /\ n.final_state \in n.states
    /\ n.start_state \in n.states
    /\ \A s \in n.states :
          /\ \A c \in DOMAIN n.pool[s].transitions : n.pool[s].transitions[c] \subseteq n.states
          /\ n.pool[s].epsilon_transitions \subseteq n.states

\* _test_strings: every test string with the verdict of nfa.simulate.
run_test_strings(n) ==
    [k \in 1..Len(test_strings) |-> <<test_strings[k], NFA_simulate(n, test_strings[k])>>]

\* The NFA after nfa.simulate was called on the first k test strings.
RECURSIVE NFA_after_test_strings(_, _)
NFA_after_test_strings(n, k) ==
    IF k = 0 THEN n
    ELSE NFA_after_simulate(NFA_after_test_strings(n, k - 1), test_strings[k])

\* Lines 62-68: the dictionary process_expression returns (the two flags of the
\* image files, which the visualizer sets, are left out).
expression_result(ast_root, nfa_value, is_valid) ==
    [ast |-> ast_root, nfa |-> nfa_value, valid |-> is_valid]

\* The except branch returning what the try block had got to.
failure_result_partial(ast_root, nfa_value) ==
    expression_result(ast_root, nfa_value, FALSE)

\* Lines 70-74: the except branch returns None.
failure_result(ast_root, nfa_value) == None

\* What a return of process_expression does to the loop of run_from_file, lines
\* 292-296: the result is appended; a pause follows unless the expression was the last.
batch_after_return(result) ==
    [batch EXCEPT !.results = Append(@, result), !.i = @ + 1]

phase_after_return == IF batch.i < Len(batch.expressions) THEN "pause" ELSE "batch_done"

\* Lines 285-292 and 20-29: the next expression is handed to process_expression.
NextExpression ==
    /\ phase = "batch"
    /\ batch.i <= Len(batch.expressions)
    /\ regex' = batch.expressions[batch.i]
    /\ parser' = [parser EXCEPT !.expanded = <<>>, !.tokens = <<>>, !.output = <<>>,
                                !.error = ""]
    /\ ast' = None
    /\ nfa' = None
    /\ batch' = [batch EXCEPT !.tested = <<>>]
    /\ phase' = "regex"
    /\ UNCHANGED <<call, earlier, builder, constructor, conv, dfa, minimizer, mini, minimized_dfa,
                   round>>

\* Lines 44-60: validate_nfa and _test_strings on the NFA built.
TestStrings ==
    /\ phase = "nfa"
    /\ batch # None
    /\ batch' = [batch EXCEPT !.tested = run_test_strings(nfa)]
    /\ nfa' = NFA_after_test_strings(nfa, Len(test_strings))
    /\ phase' = "tested"
    /\ UNCHANGED <<call, earlier, regex, parser, ast, builder, constructor, conv, dfa,
                   minimizer, mini, minimized_dfa, round>>

\* Lines 62-68: process_expression returns its dictionary.
ReturnResult ==
    /\ phase = "tested"
    /\ batch' = batch_after_return(expression_result(ast, nfa, validate_nfa(nfa)))
    /\ phase' = phase_after_return
    /\ UNCHANGED <<call, earlier, regex, parser, ast, builder, nfa, constructor, conv, dfa,
                   minimizer, mini, minimized_dfa, round>>

\* Lines 70-74: an exception of parse or of build_nfa_from_ast is caught.
ReturnNone ==
    /\ phase \in {"parse_error", "error"}
    /\ batch # None
    /\ batch' = batch_after_return(failure_result(ast, nfa))
    /\ phase' = phase_after_return
    /\ UNCHANGED <<call, earlier, regex, parser, ast, builder, nfa, constructor, conv, dfa,
                   minimizer, mini, minimized_dfa, round>>

\* Lines 296-298: Enter is pressed.
Continue ==
    /\ phase = "pause"
    /\ phase' = "batch"
    /\ UNCHANGED <<call, batch, earlier, regex, parser, ast, builder, nfa, constructor, conv, dfa,
                   minimizer, mini, minimized_dfa, round>>

\* Lines 299-301: KeyboardInterrupt at the pause ends the loop.
Interrupt ==
    /\ phase = "pause"
    /\ batch' = [batch EXCEPT !.interrupted = TRUE]
    /\ phase' = "batch_done"
    /\ UNCHANGED <<call, earlier, regex, parser, ast, builder, nfa, constructor, conv, dfa,
                   minimizer, mini, minimized_dfa, round>>

InitBatch ==
    /\ regex = None
    /\ parser = [node_counter |-> 0, expanded |-> <<>>, tokens |-> <<>>,
                 output |-> <<>>, error |-> ""]
    /\ phase = "batch"
    /\ ast = None
    /\ builder = [state_counter |-> 0]
    /\ nfa = None
    /\ constructor = [state_counter |-> 0, subset_to_dfa_state |-> EmptyDict]
    /\ conv = None
    /\ dfa = None
    /\ minimizer = [state_counter |-> 0]
    /\ mini = None
    /\ minimized_dfa = None
    /\ round = 1
    /\ earlier = None
    /\ call = None
    /\ \E expressions \in BatchesUpTo(MaxBatchLen) :
          batch = [expressions |-> expressions, i |-> 1, results |-> <<>>,
                   tested |-> <<>>, interrupted |-> FALSE]

NextBatch ==
    \/ NextExpression
    \/ parse
    \/ BuildNfa
    \/ TestStrings
    \/ ReturnResult
    \/ ReturnNone
    \/ Continue
    \/ Interrupt

SpecBatch == InitBatch /\ [][NextBatch]_vars

---------------------------------------------------------------------------
(* Calls in sequence on the same ThompsonNFABuilder, SubsetConstructor and    *)
(* DFAMinimizer objects: a first call on new objects, a call on any other     *)
(* input, and the first call once more.                                       *)

\* The largest number of nodes of an AST handed to the repeated calls.
MaxReuseNodes == 3

InitReuse ==
    /\ regex = None
    /\ parser = None
    /\ phase = "ast"
    /\ ast \in ASTsUpTo(MaxReuseNodes)
    /\ builder = [state_counter |-> 0]
    /\ nfa = None
    /\ constructor = [state_counter |-> 0, subset_to_dfa_state |-> EmptyDict]
    /\ conv = None
    /\ dfa = None
    /\ minimizer = [state_counter |-> 0]
    /\ mini = None
    /\ minimized_dfa = None
    /\ round = 1
    /\ earlier = None
    /\ call = None
    /\ batch = None

\* The caller hands the next AST to the same three objects, which stay as the
\* call before left them; after the first call its results are kept for comparison.
CallAgain ==
    /\ phase = "minimized"
    /\ round < 3
    /\ earlier' = IF round = 1
                  THEN [ast |-> ast, nfa |-> nfa, dfa |-> dfa,
                        minimized_dfa |-> minimized_dfa,
                        partitions |-> IF mini = None THEN <<>> ELSE mini.partitions,
                        builder |-> builder, constructor |-> constructor,
                        minimizer |-> minimizer]
                  ELSE earlier
    /\ ast' \in IF round = 1 THEN ASTsUpTo(MaxReuseNodes) ELSE {earlier.ast}
    /\ round' = round + 1
    /\ phase' = "ast"
    /\ nfa' = None
    /\ dfa' = None
    /\ minimized_dfa' = None
    /\ UNCHANGED <<call, batch, regex, parser, builder, constructor, conv, minimizer, mini>>

NextReuse == BuildNfa \/ nfa_to_dfa \/ minimize_dfa \/ CallAgain

SpecReuse == InitReuse /\ [][NextReuse]_vars

---------------------------------------------------------------------------
(* insert_concatenation called on a list of tokens.                        *)

\* Token lists drawn as inputs have at most this many tokens.
MaxTokens == 3

\* The tokens of the lists drawn as inputs.
TokenChars == {"a", "b", "(", ")", "|", "*", "+", "?", "."}

RECURSIVE TokensOfLen(_)
TokensOfLen(n) ==
    IF n = 0 THEN {<<>>}
    ELSE {Append(r, c) : r \in TokensOfLen(n - 1), c \in TokenChars}

TokensUpTo(max) == UNION {TokensOfLen(n) : n \in 0..max}

\* The parser holds the tokens of a text and is about to call insert_concatenation.
InitConcat ==
    /\ regex = None
    /\ \E text \in TokensUpTo(MaxTokens) :
          parser = [node_counter |-> 0, expanded |-> text, tokens |-> tokenize(text),
                    output |-> <<>>, error |-> ""]
    /\ phase = "tokens"
    /\ ast = None
    /\ builder = [state_counter |-> 0]
    /\ nfa = None
    /\ constructor = [state_counter |-> 0, subset_to_dfa_state |-> EmptyDict]
    /\ conv = None
    /\ dfa = None
    /\ minimizer = [state_counter |-> 0]
    /\ mini = None
    /\ minimized_dfa = None
    /\ round = 1
    /\ earlier = None
    /\ call = None
    /\ batch = None

SpecConcat == InitConcat /\ [][InsertConcatenation]_vars

---------------------------------------------------------------------------
(* postfix_to_ast called on a list of postfix tokens, and parse called on  *)
(* the empty regex.                                                        *)

InitPostfix ==
    /\ \/ /\ regex = None
          /\ phase = "postfix"
          /\ \E postfix_tokens \in TokensUpTo(MaxTokens) :
                parser = [node_counter |-> 0, expanded |-> <<>>, tokens |-> <<>>,
                          output |-> postfix_tokens, error |-> ""]
       \/ /\ regex = <<>>
          /\ phase = "regex"
          /\ parser = [node_counter |-> 0, expanded |-> <<>>, tokens |-> <<>>,
                       output |-> <<>>, error |-> ""]
    /\ ast = None
    /\ builder = [state_counter |-> 0]
    /\ nfa = None
    /\ constructor = [state_counter |-> 0, subset_to_dfa_state |-> EmptyDict]
    /\ conv = None
    /\ dfa = None
    /\ minimizer = [state_counter |-> 0]
    /\ mini = None
    /\ minimized_dfa = None
    /\ round = 1
    /\ earlier = None
    /\ call = None
    /\ batch = None

SpecPostfix == InitPostfix /\ [][parse]_vars

---------------------------------------------------------------------------
(* The operations called on their own on an automaton built by hand: the   *)
(* call record holds the function, its argument and what it returned.      *)

\* nfa.simulate(input_string)
CallNfaSimulate ==
    /\ phase = "nfa"
    /\ \E input_string \in Strings :
          /\ call' = [function |-> "NFA.simulate", input |-> input_string,
                      result |-> NFA_simulate(nfa, input_string)]
          /\ nfa' = NFA_after_simulate(nfa, input_string)
    /\ phase' = "simulated"
    /\ UNCHANGED <<batch, earlier, regex, parser, ast, builder, constructor, conv, dfa,
                   minimizer, mini, minimized_dfa, round>>

\* nfa.epsilon_closure(states): the epsilon_transitions are read, a plain set.
CallEpsilonClosure ==
    /\ phase = "nfa"
    /\ \E states \in SUBSET nfa.states :
          call' = [function |-> "NFA.epsilon_closure", input |-> states,
                   result |-> epsilon_closure(nfa, states)]
    /\ phase' = "closed"
    /\ UNCHANGED <<batch, earlier, regex, parser, ast, builder, nfa, constructor, conv, dfa,
                   minimizer, mini, minimized_dfa, round>>

\* dfa.simulate(input_string): the transitions are read with dict.get.
CallDfaSimulate ==
    /\ phase = "dfa"
    /\ \E input_string \in Strings :
          call' = [function |-> "DFA.simulate", input |-> input_string,
                   result |-> DFA_simulate(dfa, input_string)]
    /\ phase' = "simulated"
    /\ UNCHANGED <<batch, earlier, regex, parser, ast, builder, nfa, constructor, conv, dfa,
                   minimizer, mini, minimized_dfa, round>>

NextPure ==
    \/ CallNfaSimulate
    \/ CallEpsilonClosure
    \/ nfa_to_dfa
    \/ CallDfaSimulate
    \/ minimize_dfa

\* Each operation on an NFA built by hand, and on the DFA made from it.
SpecPure == InitNfa /\ [][NextPure]_vars

---------------------------------------------------------------------------
(* DFA.simulate and DFA.simulate_step_by_step called on the same DFA and   *)
(* string.                                                                 *)

\* dfa.simulate_step_by_step(input_string), as print_simulation_trace calls it,
\* on the string simulate was called on.
CallSimulateStepByStep ==
    /\ phase = "simulated"
    /\ call.function = "DFA.simulate"
    /\ call' = [function |-> "DFA.simulate_step_by_step", input |-> call.input,
                simulate |-> call.result,
                result |-> DFA_simulate_step_by_step(dfa, call.input)]
    /\ phase' = "traced"
    /\ UNCHANGED <<batch, earlier, regex, parser, ast, builder, nfa, constructor, conv, dfa,
                   minimizer, mini, minimized_dfa, round>>

NextTrace == CallDfaSimulate \/ CallSimulateStepByStep

SpecTrace == InitDfa /\ [][NextTrace]_vars

---------------------------------------------------------------------------
(* proyecto3/turing_simulador.py: TuringMachine.  The call record holds    *)
(* the machine (delta, initial_state, final_states), the arguments of      *)
(* simulate and its locals.                                                *)

\* The machines drawn as inputs have at most this many transitions.
MaxTmTransitions == 2

\* The input strings drawn have at most this many symbols.
MaxTmInput == 1

\* max_steps is drawn from 0 to this.
MaxTmSteps == 2

\* None, the blank of the tape and the empty cache.
BlankSymbol == ""

\* tape.extend([None] * 10)
TapePadding == 10

TmStates == {"0", "1"}
TmSymbols == {"a", BlankSymbol}
TmCaches == {BlankSymbol, "a"}
TmMoves == {"R", "L", "S"}

\* The keys and the values of delta as _parse_transitions makes them.
TmKeys == TmStates \X TmCaches \X TmSymbols

TmValues ==
    [next_state : TmStates, mem_cache : TmCaches, tape_write : TmSymbols, movement : TmMoves]

TmDeltas(max) ==
    UNION {[K -> TmValues] : K \in {X \in SUBSET TmKeys : Cardinality(X) <= max}}

TmInputs(max) == UNION {[1..n -> {"a"}] : n \in 0..max}

\* _initialize_tape: a blank, the input, ten blanks.
initialize_tape(input_string) ==
    <<BlankSymbol>> \o input_string \o [i \in 1..TapePadding |-> BlankSymbol]

\* _get_transition: the value of the exact key, None when there is none.
get_transition(delta, state, mem_cache, tape_symbol) ==
    IF <<state, mem_cache, tape_symbol>> \in DOMAIN delta
    THEN delta[<<state, mem_cache, tape_symbol>>]
    ELSE None

\* Lines 115-116: blanks are appended until the head is on the tape
\* (head_position counts from 0).
RECURSIVE extend_tape(_, _)
extend_tape(tape, head_position) ==
    IF head_position >= Len(tape) THEN extend_tape(Append(tape, BlankSymbol), head_position)
    ELSE tape

\* Lines 134-138: the head after the movement; L stops at 0, anything but R
\* and L stays.
moved_head(head_position, movement) ==
    IF movement = "R" THEN head_position + 1
    ELSE IF movement = "L" THEN (IF head_position - 1 > 0 THEN head_position - 1 ELSE 0)
    ELSE head_position

InstantaneousDescription(state, tape, head_position, mem_cache) ==
    [state |-> state, tape |-> tape, head_position |-> head_position,
     mem_cache |-> mem_cache]

\* Lines 92-107: the tape, the locals and the initial description.
TmInitialize ==
    /\ phase = "tm"
    /\ LET tape == initialize_tape(call.input_string)
       IN call' = [delta |-> call.delta, initial_state |-> call.initial_state,
                   final_states |-> call.final_states,
                   input_string |-> call.input_string, max_steps |-> call.max_steps,
                   tape |-> tape, current_state |-> call.initial_state,
                   head_position |-> 1, mem_cache |-> BlankSymbol,
                   ids_list |-> <<InstantaneousDescription(call.initial_state, tape, 1,
                                                           BlankSymbol)>>,
                   step_count |-> 0, accepted |-> FALSE]
    /\ phase' = "tm_loop"
    /\ UNCHANGED <<batch, earlier, regex, parser, ast, builder, nfa, constructor, conv, dfa,
                   minimizer, mini, minimized_dfa, round>>

\* Lines 109-112: inside the loop the current state is final; True is returned.
TmAccept ==
    /\ phase = "tm_loop"
    /\ call.step_count < call.max_steps
    /\ call.current_state \in call.final_states
    /\ call' = [call EXCEPT !.accepted = TRUE]
    /\ phase' = "tm_returned"
    /\ UNCHANGED <<batch, earlier, regex, parser, ast, builder, nfa, constructor, conv, dfa,
                   minimizer, mini, minimized_dfa, round>>

\* Lines 114-149: one turn of the loop in a state that is not final: no
\* transition returns False; a transition is applied and described.
TmTransition ==
    /\ phase = "tm_loop"
    /\ call.step_count < call.max_steps
    /\ call.current_state \notin call.final_states
    /\ LET tape == extend_tape(call.tape, call.head_position)
           current_symbol == tape[call.head_position + 1]
           transition == get_transition(call.delta, call.current_state, call.mem_cache,
                                        current_symbol)
       IN IF transition = None
          THEN /\ call' = [call EXCEPT !.tape = tape, !.accepted = FALSE]
               /\ phase' = "tm_returned"
          ELSE LET written == [tape EXCEPT ![call.head_position + 1] = transition.tape_write]
                   head_position == moved_head(call.head_position, transition.movement)
               IN /\ call' = [call EXCEPT
                        !.current_state = transition.next_state,
                        !.mem_cache = transition.mem_cache,
                        !.tape = written,
                        !.head_position = head_position,
                        !.ids_list = Append(@, InstantaneousDescription(
                                        transition.next_state, written, head_position,
                                        transition.mem_cache)),
                        !.step_count = @ + 1]
                  /\ phase' = "tm_loop"
    /\ UNCHANGED <<batch, earlier, regex, parser, ast, builder, nfa, constructor, conv, dfa,
                   minimizer, mini, minimized_dfa, round>>

\* Lines 109 and 151-152: the loop condition fails; False is returned.
TmLimit ==
    /\ phase = "tm_loop"
    /\ ~(call.step_count < call.max_steps)
    /\ call' = [call EXCEPT !.accepted = FALSE]
    /\ phase' = "tm_returned"
    /\ UNCHANGED <<batch, earlier, regex, parser, ast, builder, nfa, constructor, conv, dfa,
                   minimizer, mini, minimized_dfa, round>>

TuringMachine_simulate == TmInitialize \/ TmAccept \/ TmTransition \/ TmLimit

\* A machine made by TuringMachine(config) and a call of simulate on it.
InitTm ==
    /\ regex = None
    /\ parser = None
    /\ phase = "tm"
    /\ ast = None
    /\ builder = [state_counter |-> 0]
    /\ nfa = None
    /\ constructor = [state_counter |-> 0, subset_to_dfa_state |-> EmptyDict]
    /\ conv = None
    /\ dfa = None
    /\ minimizer = [state_counter |-> 0]
    /\ mini = None
    /\ minimized_dfa = None
    /\ round = 1
    /\ earlier = None
    /\ batch = None
    /\ \E delta \in TmDeltas(MaxTmTransitions), initial_state \in TmStates,
          input_string \in TmInputs(MaxTmInput), max_steps \in 0..MaxTmSteps :
          call = [delta |-> delta, initial_state |-> initial_state, final_states |-> {"1"},
                  input_string |-> input_string, max_steps |-> max_steps]

SpecTm == InitTm /\ [][TuringMachine_simulate]_vars

---------------------------------------------------------------------------
(* The claims. *)

\* C1: the DFA returned by nfa_to_dfa gives the same verdict as the NFA on every
\* input string (of at most MaxStrLen symbols): d.simulate(s) = n.simulate(s).
C1_SubsetConstructionKeepsLanguage ==
    phase = "dfa" => \A s \in Strings : DFA_simulate(dfa, s) = NFA_simulate(nfa, s)

\* A nondeterministic NFA was determinized: some DFA state stands for several
\* NFA states, one string of two symbols or more is accepted, another rejected.
C1_Witness ==
    /\ phase = "dfa"
    /\ \E q \in dfa.states : Cardinality(dfa.pool[q].nfa_states) >= 2
    /\ \E s \in Strings : Len(s) >= 2 /\ DFA_simulate(dfa, s)
    /\ \E s \in Strings : ~NFA_simulate(nfa, s)

\* C2: the DFA returned by minimize_dfa gives the same verdict as its input, a
\* DFA that may be partial, on every input string.
C2_MinimizeKeepsLanguage ==
    phase = "minimized" =>
        \A s \in Strings : DFA_simulate(minimized_dfa, s) = DFA_simulate(dfa, s)

\* A partial DFA lost a state in the minimization and still accepts a string.
C2_Witness ==
    /\ phase = "minimized"
    /\ round = 1
    /\ Cardinality(minimized_dfa.states) < Cardinality(dfa.states)
    /\ \E q \in dfa.states : DOMAIN dfa.pool[q].transitions # Symbols
    /\ \E s \in Strings : Len(s) >= 1 /\ DFA_simulate(dfa, s)

\* C3: the NFA built from an AST of Literal, Epsilon, Concat, Union and Star nodes
\* accepts a string exactly when the string is in the language of the AST.
C3_ThompsonLanguage ==
    phase = "nfa" => \A s \in Strings : NFA_simulate(nfa, s) = Denotes(ast, s)

\* An NFA was built from a star over a concatenation or a union.
C3_Witness ==
    /\ phase = "nfa"
    /\ ast.value = "*"
    /\ ast.left.value \in {".", "|"}
    /\ \E s \in Strings : Len(s) >= 2 /\ NFA_simulate(nfa, s)

\* C4: any two distinct states of the DFA returned by minimize_dfa are told apart
\* by some string, and every state of it is reached from its start state.
C4_MinimizedStatesDistinguished ==
    phase = "minimized" =>
        /\ \A p, q \in minimized_dfa.states :
              p # q => \E s \in Strings :
                          DFA_simulate_from(minimized_dfa, p, s)
                          # DFA_simulate_from(minimized_dfa, q, s)
        /\ minimized_dfa.states = get_reachable_states(minimized_dfa)

\* C5: minimize_dfa returns at most as many states as it was given, and as many
\* as it was given when it is given its own result.
C5_MinimizeShrinksOnce ==
    phase = "minimized" =>
        /\ Cardinality(minimized_dfa.states) <= Cardinality(dfa.states)
        /\ round = 2 => Cardinality(minimized_dfa.states) = Cardinality(dfa.states)

\* A DFA of two states or more, itself returned by minimize_dfa for a larger DFA
\* or not, was minimized again.
C5_Witness ==
    /\ phase = "minimized"
    /\ round = 2
    /\ Cardinality(minimized_dfa.states) >= 2

\* C6: epsilon_closure is idempotent and extensive on every set of states of the
\* NFA, and maps the empty set to the empty set.
C6_EpsilonClosureIsAClosure ==
    nfa # None =>
        \A S \in SUBSET nfa.states :
            /\ epsilon_closure(nfa, epsilon_closure(nfa, S)) = epsilon_closure(nfa, S)
            /\ S \subseteq epsilon_closure(nfa, S)
            /\ S = {} => epsilon_closure(nfa, S) = {}

\* nfa_to_dfa closed the start state of an NFA over a chain of two epsilon edges.
C6_Witness ==
    /\ phase = "dfa"
    /\ \E s, t, u \in nfa.states :
          /\ s # t /\ t # u /\ s # u
          /\ t \in nfa.pool[s].epsilon_transitions
          /\ u \in nfa.pool[t].epsilon_transitions
          /\ u \notin nfa.pool[s].epsilon_transitions
          /\ s = nfa.start_state

\* Every transition of pool1 is in pool2 with the same destination.
TransitionsKept(pool1, pool2) ==
    \A q \in DOMAIN pool1 :
        /\ q \in DOMAIN pool2
        /\ \A c \in DOMAIN pool1[q].transitions :
              /\ c \in DOMAIN pool2[q].transitions
              /\ pool2[q].transitions[c] = pool1[q].transitions[c]

\* Every transition of a state of d leads to one state of d.
OneDestination(d) ==
    \A q \in d.states : \A c \in DOMAIN d.pool[q].transitions :
        d.pool[q].transitions[c] \in d.states

\* C7: while nfa_to_dfa and minimize_dfa build their DFA, a transition once added
\* for a (state, symbol) pair is never replaced by another destination, and in
\* the DFA returned every (state, symbol) pair has at most one destination.
C7_TransitionsNeverOverwritten ==
    [][/\ (conv # None /\ conv' # None) => TransitionsKept(conv.pool, conv'.pool)
       /\ (mini # None /\ mini' # None) => TransitionsKept(mini.pool, mini'.pool)
       /\ phase' = "dfa" => (dfa'.pool = conv'.pool /\ OneDestination(dfa'))
       /\ (phase' = "minimized" /\ mini' # None) =>
             (minimized_dfa'.pool = mini'.pool /\ OneDestination(minimized_dfa'))]_vars

\* Both constructions ran and the minimized DFA has a state with two transitions.
C7_Witness ==
    /\ phase = "minimized"
    /\ mini # None
    /\ \E q \in minimized_dfa.states : DOMAIN minimized_dfa.pool[q].transitions = Symbols
    /\ \E q \in dfa.states : DOMAIN dfa.pool[q].transitions = Symbols

\* The final states of the sub-automata that the build of node composed into
\* larger ones, b being the builder when the build of node starts.
RECURSIVE composed_finals(_, _)
composed_finals(b, node) ==
    IF is_operand(node) THEN {}
    ELSE IF node.value \in {".", "|"}
    THEN LET nfa1 == build_nfa_recursive(b, node.left)
             nfa2 == build_nfa_recursive(nfa1.b, node.right)
         IN composed_finals(b, node.left) \cup composed_finals(nfa1.b, node.right)
            \cup {nfa1.final_state, nfa2.final_state}
    ELSE composed_finals(b, node.left) \cup {build_nfa_recursive(b, node.left).final_state}

AllCreatedReached(states, pool, state_counter) ==
    /\ states = DOMAIN pool
    /\ state_counter = Cardinality(states)

\* C9: in the NFA of build_nfa_from_ast, the DFA of nfa_to_dfa and the DFA of
\* minimize_dfa, every state created by the construction is reached from the
\* start state and is in states, every transition target is in states, and the
\* number of states created is len(states).  minimize_dfa constructs nothing for
\* a DFA of at most one state: it creates no state and returns the DFA it got.
C9_CreatedStatesReachable ==
    /\ phase = "nfa" =>
          /\ AllCreatedReached(nfa.states, nfa.pool, builder.state_counter)
          /\ \A s \in nfa.states :
                /\ nfa.pool[s].epsilon_transitions \subseteq nfa.states
                /\ \A c \in DOMAIN nfa.pool[s].transitions :
                      nfa.pool[s].transitions[c] \subseteq nfa.states
    /\ phase = "dfa" =>
          /\ AllCreatedReached(dfa.states, dfa.pool, constructor.state_counter)
          /\ OneDestination(dfa)
    /\ phase = "minimized" =>
          IF mini = None
          THEN minimizer.state_counter = 0 /\ minimized_dfa = dfa
          ELSE /\ AllCreatedReached(minimized_dfa.states, minimized_dfa.pool,
                                    minimizer.state_counter)
               /\ OneDestination(minimized_dfa)

\* minimize_dfa built a DFA of fewer states than the DFA of nfa_to_dfa, itself
\* built from an NFA of six states or more.
C9_Witness ==
    /\ phase = "minimized"
    /\ mini # None
    /\ builder.state_counter >= 6
    /\ minimizer.state_counter >= 2
    /\ minimizer.state_counter < constructor.state_counter
\* The parentheses of a text are unbalanced: read from the left, a backslash with
\* the character it escapes and a closed class [...] passed over, some ")" has
\* no "(" open before it, or some "(" is still open at the end.
RECURSIVE unbalanced_from(_, _, _)
unbalanced_from(text, i, depth) ==
    IF i > Len(text) THEN depth > 0
    ELSE IF text[i] = "\\" /\ i < Len(text) THEN unbalanced_from(text, i + 2, depth)
    ELSE IF text[i] = "[" /\ \E j \in (i + 1)..Len(text) : text[j] = "]"
    THEN LET j == CHOOSE j \in (i + 1)..Len(text) :
                     text[j] = "]" /\ \A k \in (i + 1)..(j - 1) : text[k] # "]"
         IN unbalanced_from(text, j + 1, depth)
    ELSE IF text[i] = "(" THEN unbalanced_from(text, i + 1, depth + 1)
    ELSE IF text[i] = ")" THEN depth = 0 \/ unbalanced_from(text, i + 1, depth - 1)
    ELSE unbalanced_from(text, i + 1, depth)

UnbalancedParentheses(text) == unbalanced_from(text, 1, 0)

\* C10: when the parentheses of the regex are unbalanced, parse ends with an
\* error and returns no AST.
C10_UnbalancedParenthesesRejected ==
    (/\ parser # None
     /\ phase \notin {"regex", "tokens", "concatenated", "postfix"}
     /\ UnbalancedParentheses(regex))
        => (phase = "parse_error" /\ ast = None)
\* Whether the text from position i has an opening bracket, not escaped by a
\* backslash, with no closing bracket after it.
RECURSIVE unclosed_from(_, _)
unclosed_from(text, i) ==
    IF i > Len(text) THEN FALSE
    ELSE IF text[i] = "\\" THEN unclosed_from(text, i + 2)
    ELSE IF text[i] = "["
    THEN IF \E j \in (i + 1)..Len(text) : text[j] = "]"
         THEN unclosed_from(text, 1 + CHOOSE j \in (i + 1)..Len(text) :
                                         /\ text[j] = "]"
                                         /\ \A k \in (i + 1)..(j - 1) : text[k] # "]")
         ELSE TRUE
    ELSE unclosed_from(text, i + 1)

UnclosedClass(text) == unclosed_from(text, 1)

\* C11: parse of a regex with a malformed character class, an opening bracket
\* that no closing bracket follows, fails with an error and returns no AST.
C11_UnclosedClassRejected ==
    (/\ parser # None
     /\ phase \notin {"regex", "tokens", "concatenated", "postfix"}
     /\ UnclosedClass(regex))
        => (phase = "parse_error" /\ ast = None)

\* C12: a backslash followed by a metacharacter m is parsed as the one literal
\* character m, and a backslash followed by any other character c as the
\* literal c: parse succeeds and returns the operand node of that character.
C12_EscapedCharacterIsLiteral ==
    (/\ parser # None
     /\ phase \notin {"regex", "tokens", "concatenated", "postfix"}
     /\ Len(regex) = 2
     /\ regex[1] = "\\")
        => (phase # "parse_error" /\ ast = Literal(regex[2]))

\* The strings the example (a|b)*abb(a|b)* accepts and rejects.
ClassicAccepted ==
    {<<"a", "b", "b">>, <<"a", "a", "b", "b", "a">>, <<"a", "b", "a", "b", "b">>}

ClassicRejected == {<<"a", "b">>, <<"a", "a">>, <<>>}

\* C13: the pipeline on (a|b)*abb(a|b)* ends with a minimized DFA of exactly 4
\* reachable states that accepts abb, aabba, ababb and rejects ab, aa and the
\* empty string, as the unminimized DFA does.
C13_ClassicExampleMinimized ==
    (phase = "minimized" /\ regex = ClassicRegex)
        => /\ Cardinality(get_reachable_states(minimized_dfa)) = 4
           /\ Cardinality(minimized_dfa.states) = 4
           /\ \A s \in ClassicAccepted :
                 DFA_simulate(minimized_dfa, s) /\ DFA_simulate(dfa, s)
           /\ \A s \in ClassicRejected :
                 ~DFA_simulate(minimized_dfa, s) /\ ~DFA_simulate(dfa, s)

C13_Witness ==
    /\ phase = "minimized"
    /\ regex = ClassicRegex
    /\ Cardinality(dfa.states) > Cardinality(minimized_dfa.states)
    /\ DFA_simulate(minimized_dfa, <<"a", "b", "a", "b", "b">>)

\* Whether the parenthesis that opens at position 1 closes at the last position.
RECURSIVE closes_at_end(_, _, _)
closes_at_end(text, i, depth) ==
    IF i > Len(text) THEN FALSE
    ELSE LET d == IF text[i] = "(" THEN depth + 1
                  ELSE IF text[i] = ")" THEN depth - 1 ELSE depth
         IN IF d = 0 THEN i = Len(text) ELSE closes_at_end(text, i + 1, d)

\* One literal character, or one balanced parenthesized group.
SingleOperand(text) ==
    \/ Len(text) = 1 /\ text[1] \notin {"(", ")", "[", "]", "*", "+", "?", "|", "\\"}
    \/ /\ Len(text) >= 3
       /\ text[1] = "("
       /\ \A i \in 1..Len(text) : text[i] \notin {"[", "]", "\\"}
       /\ closes_at_end(text, 1, 0)

\* The AST parse returns for a text.
parsed(text) ==
    postfix_to_ast(shunting_yard(insert_concatenation(tokenize(expand_extensions(text))))).root

\* One or more repetitions of the language of an AST.
RECURSIVE DenotesRepeated(_, _)
DenotesRepeated(node, s) ==
    \/ Denotes(node, s)
    \/ \E k \in 1..(Len(s) - 1) :
          /\ Denotes(node, SubSeq(s, 1, k))
          /\ DenotesRepeated(node, SubSeq(s, k + 1, Len(s)))

\* The regex is an operand E followed by the operator op.
Sugared(text, op) ==
    /\ Len(text) >= 2
    /\ text[Len(text)] = op
    /\ SingleOperand(SubSeq(text, 1, Len(text) - 1))

SugarOperand(text) == SubSeq(text, 1, Len(text) - 1)

\* C14: for an operand E that is one literal character or one balanced group,
\* E? is rewritten to (E|ε) and E+ to EE*; the parsed expression accepts the
\* language of E and the empty string, respectively one or more repetitions of
\* the language of E; a?b+ accepts b, ab, bb, abb and rejects the empty string,
\* a and ba.
C14_OptionalAndPlusDesugared ==
    /\ (phase # "regex" /\ Sugared(regex, "?"))
          => parser.expanded = <<"(">> \o expand_extensions(SugarOperand(regex))
                               \o <<"|", "ε", ")">>
    /\ (phase # "regex" /\ Sugared(regex, "+"))
          => parser.expanded = expand_extensions(SugarOperand(regex))
                               \o expand_extensions(SugarOperand(regex)) \o <<"*">>
    /\ (nfa # None /\ Sugared(regex, "?"))
          => \A s \in Strings :
                NFA_simulate(nfa, s) = (s = <<>> \/ Denotes(parsed(SugarOperand(regex)), s))
    /\ (nfa # None /\ Sugared(regex, "+"))
          => \A s \in Strings :
                NFA_simulate(nfa, s) = DenotesRepeated(parsed(SugarOperand(regex)), s)
    /\ (phase \notin {"regex", "tokens", "concatenated", "postfix", "ast"}
        /\ regex = OptionalPlusRegex)
          => /\ nfa # None
             /\ \A s \in {<<"b">>, <<"a", "b">>, <<"b", "b">>, <<"a", "b", "b">>} :
                   NFA_simulate(nfa, s)
             /\ \A s \in {<<>>, <<"a">>, <<"b", "a">>} : ~NFA_simulate(nfa, s)

C14_Witness ==
    /\ nfa # None
    /\ Sugared(regex, "+")
    /\ Len(regex) > 4
    /\ NFA_simulate(nfa, <<"a", "b">>)
    /\ ~NFA_simulate(nfa, <<"a">>)

\* C15: a class is rewritten to the union of its members; a class of one member
\* becomes that literal, without parentheses; [a-c]d is equivalent to (a|b|c)d
\* and accepts ad, bd, cd and rejects dd and "ad d".
C15_ClassIsUnionOfMembers ==
    /\ (/\ phase \notin {"regex", "tokens", "concatenated", "postfix"}
        /\ Len(regex) = 3
        /\ regex[1] = "["
        /\ regex[2] \notin {"]", "\\"}
        /\ regex[3] = "]")
          => (phase # "parse_error" /\ ast = Literal(regex[2]))
    /\ (/\ phase \notin {"regex", "tokens", "concatenated", "postfix"}
        /\ regex = <<"[", "a", "b", "]">>)
          => (phase # "parse_error" /\ ast = Union(Literal("a"), Literal("b")))
    /\ (/\ phase \notin {"regex", "tokens", "concatenated", "postfix", "ast"}
        /\ regex = ClassRegex)
          => /\ nfa # None
             /\ ast = parsed(<<"(", "a", "|", "b", "|", "c", ")", "d">>)
             /\ \A s \in {<<"a", "d">>, <<"b", "d">>, <<"c", "d">>} : NFA_simulate(nfa, s)
             /\ \A s \in {<<"d", "d">>, <<"a", "d", " ", "d">>} : ~NFA_simulate(nfa, s)

\* What process_expression returns for an expression processed on its own, on
\* new parser and builder objects.
processed_alone(text) ==
    LET a == postfix_to_ast(shunting_yard(insert_concatenation(tokenize(
                 expand_extensions(text)))))
        r == build_nfa_from_ast([state_counter |-> 0], a.root)
        n == NFA(r.b.pool, r.start_state, r.final_state)
    IN IF a.error # "" THEN None
       ELSE IF r.error THEN None
       ELSE [ast |-> a.root, nfa |-> n, valid |-> validate_nfa(n)]

parse_fails(text) ==
    postfix_to_ast(shunting_yard(insert_concatenation(tokenize(
        expand_extensions(text))))).error # ""

\* C16: in the loop over the expressions of a file, an expression whose parse
\* fails gets no automaton (process_expression returns None, no NFA is built and
\* no string simulated for it), the loop goes on with the next expression, and
\* the other expressions get the results they get when processed alone.
C16_FailedParseYieldsNoAutomaton ==
    batch # None =>
        /\ phase = "parse_error" => (nfa = None /\ batch.tested = <<>>)
        /\ \A k \in 1..Len(batch.results) :
              /\ parse_fails(batch.expressions[k]) => batch.results[k] = None
              /\ batch.results[k] = processed_alone(batch.expressions[k])
        /\ phase \in {"batch", "pause"} => Len(batch.results) = batch.i - 1
        /\ phase = "pause" => batch.i <= Len(batch.expressions)
        /\ (phase = "batch_done" /\ ~batch.interrupted)
              => Len(batch.results) = Len(batch.expressions)

C16_Witness ==
    /\ batch # None
    /\ phase = "batch_done"
    /\ Len(batch.results) = 2
    /\ parse_fails(batch.expressions[1])
    /\ batch.results[1] = None
    /\ batch.results[2] # None
    /\ batch.results[2].nfa.states # {}

\* C17: after earlier calls on the same builder, constructor and minimizer, a
\* call returns the automaton the same call returns on new objects: the same
\* NFA, the same DFA and the same minimized DFA, state ids from 0, and the
\* objects' counters and subset map end as they do after the call on new
\* objects.  The minimized DFA is compared for the same order of iteration over
\* the partitions, which the input fixes.
C17_CallsStartFromResetState ==
    round = 3 =>
        /\ nfa # None => (nfa = earlier.nfa /\ builder = earlier.builder)
        /\ dfa # None => (dfa = earlier.dfa /\ constructor = earlier.constructor)
        /\ phase = "minimized"
              => /\ minimizer = earlier.minimizer
                 /\ minimized_dfa.states = earlier.minimized_dfa.states
                 /\ 0 \in minimized_dfa.states
                 /\ (IF mini = None THEN <<>> ELSE mini.partitions) = earlier.partitions
                       => minimized_dfa = earlier.minimized_dfa

C17_Witness ==
    /\ round = 3
    /\ phase = "minimized"
    /\ mini # None
    /\ mini.partitions = earlier.partitions
    /\ Cardinality(minimized_dfa.states) > 1
    /\ Cardinality(nfa.states) > 2

\* The union of the c-targets of the NFA states of a subset, epsilon-closed.
closed_targets(n, T, c) ==
    epsilon_closure(n, UNION {get_transitions_for_symbol(n.pool[q], c) : q \in T})

\* C18: in the DFA of nfa_to_dfa, a state D with NFA subset T has a transition
\* on the alphabet symbol c exactly when the epsilon-closure of the union of the
\* c-targets of the states of T is not empty, and the destination's NFA subset
\* is that closed set; when it is empty D has no transition on c.
C18_TransitionsFollowClosedTargets ==
    phase = "dfa" =>
        \A D \in dfa.states : \A c \in NFA_get_alphabet(nfa) :
            LET T == dfa.pool[D].nfa_states
                D_has_c == c \in DOMAIN dfa.pool[D].transitions
            IN /\ D_has_c <=> closed_targets(nfa, T, c) # {}
               /\ D_has_c => /\ dfa.pool[D].transitions[c] \in dfa.states
                             /\ dfa.pool[dfa.pool[D].transitions[c]].nfa_states
                                   = closed_targets(nfa, T, c)

C18_Witness ==
    /\ phase = "dfa"
    /\ \E D, E \in dfa.states : \E c \in NFA_get_alphabet(nfa) :
          /\ c \in DOMAIN dfa.pool[D].transitions
          /\ c \notin DOMAIN dfa.pool[E].transitions
          /\ dfa.pool[dfa.pool[D].transitions[c]].nfa_states
                # UNION {get_transitions_for_symbol(nfa.pool[q], c) :
                           q \in dfa.pool[D].nfa_states}

\* C19: in the DFA of nfa_to_dfa the start state's NFA subset is the
\* epsilon-closure of the NFA's start state, and every DFA state is accepting
\* exactly when its NFA subset holds an accepting NFA state.
C19_StartClosureAndAcceptance ==
    phase = "dfa" =>
        /\ dfa.pool[dfa.start_state].nfa_states = epsilon_closure(nfa, {nfa.start_state})
        /\ \A D \in dfa.states :
              dfa.pool[D].is_final
                 <=> (\E q \in dfa.pool[D].nfa_states : nfa.pool[q].is_final)
        /\ dfa.final_states = {D \in dfa.states : dfa.pool[D].is_final}

C19_Witness ==
    /\ phase = "dfa"
    /\ Cardinality(dfa.pool[dfa.start_state].nfa_states) > 1
    /\ \E D \in dfa.states :
          /\ dfa.pool[D].is_final
          /\ \E q \in dfa.pool[D].nfa_states : ~nfa.pool[q].is_final

\* C20: during and after nfa_to_dfa no two DFA states have equal NFA subsets,
\* and every DFA state's subset is not empty and closed under epsilon
\* transitions.
C20_OneStatePerSubset ==
    phase \in {"subset_loop", "subset_symbols", "dfa"} =>
        /\ \A D1, D2 \in DOMAIN conv.pool :
              conv.pool[D1].nfa_states = conv.pool[D2].nfa_states => D1 = D2
        /\ \A D \in DOMAIN conv.pool :
              /\ conv.pool[D].nfa_states # {}
              /\ \A q \in conv.pool[D].nfa_states :
                    nfa.pool[q].epsilon_transitions \subseteq conv.pool[D].nfa_states
        /\ phase = "dfa" => dfa.states = DOMAIN conv.pool

C20_Witness ==
    /\ phase = "dfa"
    /\ Cardinality(dfa.states) > 1
    /\ \E D \in dfa.states : \E c \in DOMAIN dfa.pool[D].transitions :
          dfa.pool[D].transitions[c] <= D


\* The subsets waiting in the work queue.
queued_subsets == {conv.work_queue[i] : i \in 1..Len(conv.work_queue)}

\* Every subset that has a DFA state is either waiting in the queue, exactly
\* once, or processed, never both; the DFA states are those of the map and
\* are at most 2^|NFA states| - 1.
SubsetsQueuedOnce ==
    phase \in {"subset_loop", "subset_symbols", "dfa"} =>
        /\ \A i, j \in 1..Len(conv.work_queue) :
              conv.work_queue[i] = conv.work_queue[j] => i = j
        /\ queued_subsets \cap conv.processed = {}
        /\ queued_subsets \cup conv.processed = DOMAIN constructor.subset_to_dfa_state
        /\ {} \notin DOMAIN constructor.subset_to_dfa_state
        /\ Cardinality(DOMAIN conv.pool) = Cardinality(DOMAIN constructor.subset_to_dfa_state)
        /\ Cardinality(DOMAIN conv.pool) <= 2 ^ Cardinality(nfa.states) - 1

\* C21: nfa_to_dfa terminates for every finite NFA: each subset is enqueued at
\* most once and processed at most once, the work queue eventually becomes
\* empty and the DFA is returned, and the number of DFA states created never
\* exceeds 2^|NFA states| - 1.
C21_SubsetConstructionTerminates ==
    /\ []SubsetsQueuedOnce
    /\ [][PopSubset => Head(conv.work_queue) \notin conv.processed]_vars
    /\ <>(phase = "dfa" /\ conv.work_queue = <<>>)

\* nfa_to_dfa has returned a DFA of several states in which a transition leads
\* to a subset that already had its state: that subset was met again and was
\* not queued again.
C21_Witness ==
    /\ phase = "dfa"
    /\ conv.work_queue = <<>>
    /\ Cardinality(dfa.states) >= 2
    /\ Cardinality(conv.processed) = Cardinality(dfa.states)
    /\ \E s \in dfa.states : \E c \in DOMAIN dfa.pool[s].transitions :
          dfa.pool[s].transitions[c] <= s


\* The blocks of the list of partitions.
blocks(partitions) == {partitions[i] : i \in 1..Len(partitions)}

\* C22: the refinement loop of minimize_dfa terminates: a pass that reports a
\* change (the loop goes on) leaves strictly more blocks than it found, the
\* blocks are never more than the reachable states, and the loop stops at the
\* first pass that leaves the blocks as they were.
C22_RefinementTerminates ==
    /\ [](phase \in {"refine", "build"} =>
            Len(mini.partitions) <= Cardinality(mini.reachable_states))
    /\ [][RefinePass =>
            /\ phase' = "refine" => Len(mini'.partitions) > Len(mini.partitions)
            /\ phase' # "refine" => /\ phase' = "build"
                                    /\ blocks(mini'.partitions) = blocks(mini.partitions)
            /\ blocks(mini'.partitions) = blocks(mini.partitions) => phase' = "build"]_vars
    /\ (phase = "refine") ~> (phase = "build")

\* The loop has stopped after a pass that divided a block and a pass that
\* divided none.
C22_Witness ==
    /\ phase = "build"
    /\ mini.iteration >= 2
    /\ Len(mini.partitions) > Len(initial_partitions(dfa, mini.reachable_states))


\* The states s and t of the DFA d agree on the symbol c with respect to the
\* partitions: both have no transition, or both have one into the same block.
agree_on(d, partitions, s, t, c) ==
    LET s_target == get_transition_for_symbol(d.pool[s], c)
        t_target == get_transition_for_symbol(d.pool[t], c)
    IN IF s_target = NoState \/ t_target = NoState
       THEN s_target = NoState /\ t_target = NoState
       ELSE \E i \in 1..Len(partitions) : {s_target, t_target} \subseteq partitions[i]

\* The representative of partition i has the transitions and the final mark
\* that the member s gives it.
built_from(i, s) ==
    LET representative == mini.pool[mini.partition_representatives[i - 1]]
    IN /\ representative.is_final = dfa.pool[s].is_final
       /\ DOMAIN representative.transitions = DOMAIN dfa.pool[s].transitions
       /\ \A c \in DOMAIN representative.transitions :
             representative.transitions[c] =
                mini.partition_representatives[
                    mini.state_to_partition[dfa.pool[s].transitions[c]]]

C24_BlocksPartitionReachableStates ==
    /\ (phase \in {"refine", "build", "build_transitions"}
          \/ (phase = "minimized" /\ mini # None)) =>
          /\ \A i \in 1..Len(mini.partitions) : mini.partitions[i] # {}
          /\ \A i, j \in 1..Len(mini.partitions) :
                i # j => mini.partitions[i] \cap mini.partitions[j] = {}
          /\ UNION blocks(mini.partitions) = get_reachable_states(dfa)
          /\ \A i \in 1..Len(mini.partitions) : \A s, t \in mini.partitions[i] :
                dfa.pool[s].is_final = dfa.pool[t].is_final
    /\ (phase = "build_transitions" \/ (phase = "minimized" /\ mini # None)) =>
          \A i \in 1..Len(mini.partitions) :
             mini.pool[mini.partition_representatives[i - 1]].is_final
                <=> \A s \in mini.partitions[i] : dfa.pool[s].is_final

\* After a pass that divided a block of accepting states the representatives
\* are made, each one accepting.
C24_Witness ==
    /\ phase = "build_transitions"
    /\ mini.iteration >= 2
    /\ Len(mini.partitions) >= 2
    /\ \A i \in 1..Len(mini.partitions) :
          mini.pool[mini.partition_representatives[i - 1]].is_final


\* A concatenation token belongs between the adjacent tokens A and B.
concat_between(A, B) == A \notin {"|", "("} /\ B \notin {"|", ")", "*", "+", "?"}

\* The number of places up to token i of the tokens where one belongs.
concats_up_to(tokens, i) ==
    Cardinality({k \in 2..i : concat_between(tokens[k - 1], tokens[k])})

\* C25: insert_concatenation puts the token "." between two adjacent tokens
\* A, B exactly when A is not "|" or "(" and B is not "|", ")", "*", "+" or
\* "?"; every original token is kept, in the original order, and nothing else
\* is added.
C25_ConcatenationInsertedBetweenOperands ==
    phase = "concatenated" =>
        LET tokens == tokenize(parser.expanded)
            new_tokens == parser.tokens
        IN /\ Len(new_tokens) = Len(tokens) + concats_up_to(tokens, Len(tokens))
           /\ \A i \in 1..Len(tokens) :
                 LET at == i + concats_up_to(tokens, i)
                 IN /\ new_tokens[at] = tokens[i]
                    /\ (i > 1 /\ concat_between(tokens[i - 1], tokens[i]))
                          => new_tokens[at - 1] = "."

\* insert_concatenation has put one "." after a postfix "+" or "?" and none
\* before it.
C25_Witness ==
    /\ phase = "concatenated"
    /\ Len(parser.expanded) = 3
    /\ parser.expanded[1] = "a"
    /\ parser.expanded[2] \in {"+", "?"}
    /\ parser.expanded[3] \in {"a", "("}
    /\ parser.tokens = <<"a", parser.expanded[2], ".", parser.expanded[3]>>


\* The nodes on the stack of a stack machine after the first i tokens, when
\* no operator before lacked operands: one more per leaf, one less per
\* binary operator.
depth_after(tokens, i) ==
    Cardinality({k \in 1..i : tokens[k] \notin {"*", "+", "?", "|", "."}})
       - Cardinality({k \in 1..i : tokens[k] \in {"|", "."}})

\* Token i is an operator that finds too few operands.
lacks_operands(tokens, i) ==
    \/ tokens[i] \in {"*", "+", "?"} /\ depth_after(tokens, i - 1) < 1
    \/ tokens[i] \in {"|", "."} /\ depth_after(tokens, i - 1) < 2

\* Well-formed postfix: no operator lacks operands and one node is left.
well_formed(tokens) ==
    /\ \A i \in 1..Len(tokens) : ~lacks_operands(tokens, i)
    /\ depth_after(tokens, Len(tokens)) = 1

\* The tree that ends at token i of well-formed postfix, with the index of
\* its first token: the operand just before a binary operator is its right
\* child, the operand before that one its left child.
RECURSIVE tree_ending_at(_, _)
tree_ending_at(tokens, i) ==
    IF tokens[i] \in {"*", "+", "?"}
    THEN LET child == tree_ending_at(tokens, i - 1)
         IN [node |-> ASTNode(tokens[i], child.node, None, "unary_op"),
             first |-> child.first]
    ELSE IF tokens[i] \in {"|", "."}
    THEN LET right == tree_ending_at(tokens, i - 1)
             left == tree_ending_at(tokens, right.first - 1)
         IN [node |-> ASTNode(tokens[i], left.node, right.node, "binary_op"),
             first |-> left.first]
    ELSE [node |-> ASTNode(tokens[i], None, None, "operand"), first |-> i]

\* C26: postfix_to_ast succeeds exactly on well-formed postfix and returns its
\* tree: a unary operator takes one node, a binary operator two (the first
\* popped is the right child, the second the left), any other token is a
\* leaf; it raises an error when an operator finds too few operands or when
\* the stack does not hold exactly one node at the end, as for the empty
\* token list, so that parse fails on the empty regex.
C26_PostfixToAstStackMachine ==
    LET tokens == parser.output
    IN /\ phase = "ast" =>
             /\ well_formed(tokens)
             /\ ast = tree_ending_at(tokens, Len(tokens)).node
             /\ parser.error = ""
       /\ phase = "parse_error" =>
             /\ ~well_formed(tokens)
             /\ ast = None
             /\ parser.error # ""
             /\ parser.error = "stack final" <=>
                   \A i \in 1..Len(tokens) : ~lacks_operands(tokens, i)
       /\ (phase \in {"ast", "parse_error"} /\ (tokens = <<>> \/ regex = <<>>)) =>
             phase = "parse_error" /\ parser.error = "stack final"

\* postfix_to_ast has returned a binary node whose children differ.
C26_Witness ==
    /\ phase = "ast"
    /\ regex = None
    /\ ast.node_type = "binary_op"
    /\ ast.left # ast.right
    /\ ast.right.node_type = "operand"


\* C27: every step of NFA.simulate, NFA.epsilon_closure and nfa_to_dfa (the
\* steps taken from the phases that hold an NFA to work on) leaves the NFA as
\* it was, and every step of DFA.simulate and minimize_dfa leaves the DFA as
\* it was: the same states, the same transitions with no new empty entry,
\* the same accepting flags, the same start state.
C27_OperationsLeaveInputUnchanged ==
    /\ [][(phase \in {"nfa", "subset_loop", "subset_symbols"}) => nfa' = nfa]_vars
    /\ [][(phase \in {"dfa", "refine", "build", "build_transitions"}) => dfa' = dfa]_vars

\* nfa_to_dfa has returned after looking up, in a state of the NFA, a symbol
\* of the alphabet on which that state has no transition.
C27_Witness ==
    /\ phase = "dfa"
    /\ call = None
    /\ \E q \in dfa.states : \E s \in dfa.pool[q].nfa_states : \E c \in dfa.alphabet :
          c \notin DOMAIN nfa.pool[s].transitions


\* C28: for every DFA and every input string, the 'accepted' entry of
\* simulate_step_by_step equals what simulate returns; in particular both
\* reject when a symbol has no transition from the current state.
C28_StepByStepAgreesWithSimulate ==
    phase = "traced" => call.result.accepted = call.simulate


\* A literal followed by a postfix operator and then by "?" or "+".
StackedPostfix(text) ==
    /\ Len(text) = 3
    /\ text[1] \in {"a", "b"}
    /\ text[2] \in {"*", "+", "?"}
    /\ text[3] \in {"?", "+"}

\* C29: when "?" or "+" follows an operand that already carries a postfix
\* operator, parse succeeds and the later operator applies to the whole
\* postfixed operand: a*? accepts what (a*)? accepts, the empty string and the
\* language of a*, and a+? what (a+)? accepts.
C29_StackedPostfixOperators ==
    (StackedPostfix(regex) /\ phase \in {"ast", "parse_error"}) =>
        /\ phase = "ast"
        /\ \A s \in Strings :
              Denotes(ast, s) =
                 IF regex[3] = "?"
                 THEN s = <<>> \/ Denotes(parsed(SubSeq(regex, 1, 2)), s)
                 ELSE DenotesRepeated(parsed(SubSeq(regex, 1, 2)), s)


\* C30: when TuringMachine.simulate returns, accepted is True exactly when the
\* machine is in a final state, having applied at most max_steps transitions
\* (the final state may have been entered by the max_steps-th one), and the
\* list of instantaneous descriptions has one entry per applied transition
\* plus the initial one.
C30_AcceptedIffFinalWithinLimit ==
    phase = "tm_returned" =>
        /\ call.step_count <= call.max_steps
        /\ call.accepted <=> call.current_state \in call.final_states
        /\ Len(call.ids_list) = call.step_count + 1

====
